---- MODULE Spec2Model ----
(***************************************************************************)
(* Knowledge-base tree of hse-eco-bot: the relational provider             *)
(* (kb/providers/db.rs), the provider registry (kb.rs), the command        *)
(* façade (db.rs, CommandSender) and the access task that serialises       *)
(* every command (db.rs, AccessTask).                                      *)
(***************************************************************************)
EXTENDS Integers, Sequences, FiniteSets, TLC

VARIABLES
    context,    \* AccessTask.context: the tables behind the Tree and DbProvider.mount_points
    last,       \* the call that has just returned: its operation, result and provider calls
    pc,         \* per caller: where it is inside CommandSender::send_erased
    pending,    \* per caller: the command of its current send_erased call
    waiters,    \* callers suspended in mpsc::Sender::send, in arrival order
    queue,      \* the mpsc channel buffer of CommandPackages
    oneshot,    \* per caller: the values sent on the oneshot channel of its current call
    actor,      \* AccessTask::run_blocking: position in the loop, package and result in hand
    task,       \* the blocking task of run_blocking: "running", "exited" or "panicked"
    accepted,   \* history: packages in the order they entered the channel
    executed,   \* history: packages in the order the actor ran them
    sent,       \* history, per caller: the commands it has submitted
    got,        \* history, per caller: the replies its calls returned
    dialog      \* UserDialogData of one user: the DialogState and the user's permissions

vars == <<context, last, pc, pending, waiters, queue, oneshot, actor, task,
          accepted, executed, sent, got, dialog>>

callVars == <<pc, pending, waiters, queue, oneshot, actor, task,
              accepted, executed, sent, got>>

actorVars == <<callVars, dialog>>

-----------------------------------------------------------------------------
(* Bounds of the model *)

\* directories and notes created by users that exist at one time
MaxItems == 2
\* commands submitted to the access task in one behaviour
MaxSends == 3

Names == {"a", "b"}
Contents == {"x"}
Callers == {"c1", "c2", "c3"}

-----------------------------------------------------------------------------
(* Program constants *)

\* DbProvider::root_directory: the id of the root directory
ROOT_DIR == 0
\* Tree::new: the id under which the relational provider is registered
ROOT_PROVIDER_ID == 0
\* Tree::new: the id under which the archive provider is registered
ARCHIVE_PROVIDER_ID == 1
\* ArchiveProvider: id of its synthetic root, u64::MAX, written as the same value
\* modulo 2^64
ROOT_DIR_ID == -1
\* Tree::new: the name of the archive mount directory (transliterated)
ARCHIVE_DIR == "Arkhiv rassylok"

\* a buffer with room for two packages
ChannelCapacityDoubled == 1 + 1

\* AccessTask::new: mpsc::channel(1)
ChannelCapacity == 1

Providers == {ROOT_PROVIDER_ID, ARCHIVE_PROVIDER_ID}
ProviderIds == Providers \cup {2}  \* provider ids a caller may present; 2 is unregistered

\* row ids of the model: the root and the archive directory come first
DirIds == 0 .. (MaxItems + 1)
NoteIds == 1 .. MaxItems

-----------------------------------------------------------------------------
(* ProviderError and command results *)

None == <<>>
Some(x) == <<x>>

Result(tag, id, name) == [tag |-> tag, id |-> id, name |-> name]

Ok == Result("Ok", None, None)
OkId(id) == Result("Ok", Some(id), None)
NoSuchDirectory(id) == Result("NoSuchDirectory", Some(id), None)
NoSuchNote(id) == Result("NoSuchNote", Some(id), None)
WouldCreateLoop == Result("WouldCreateLoop", None, None)
OperationNotSupported == Result("OperationNotSupported", None, None)
CannotRenameRoot == Result("CannotRenameRoot", None, None)
CannotMoveRoot == Result("CannotMoveRoot", None, None)
CannotDeleteRoot == Result("CannotDeleteRoot", None, None)
TargetNameAlreadyExists(name) == Result("TargetNameAlreadyExists", None, Some(name))
NoSuchProvider(id) == Result("NoSuchProvider", Some(id), None)
CrossProviderMove == Result("CrossProviderMove", None, None)
SqliteError == Result("SqliteError", None, None)

\* what a provider method hands back: the tables afterwards and the result
Outcome(db, res) == [db |-> db, res |-> res]

-----------------------------------------------------------------------------
(* Storage: the tables of the relational provider *)

SetMax(S) == CHOOSE m \in S : \A x \in S : x <= m

\* rowid SQLite gives the next row of a table whose rowids are S
NextRowId(S) == IF S = {} THEN 1 ELSE SetMax(S) + 1

DirRows(db, id) == {r \in db.kb_dir_children : r.child_id = id}
NoteRows(db, id) == {r \in db.kb_note_children : r.child_id = id}
NoteIdsOf(db) == {n.id : n \in db.kb_notes}

\* UNIQUE(parent_id, child_name) of an adjacency table, for the row of `child`
UniqueViolation(rows, parent, name, child) ==
    \E r \in rows : r.parent_id = parent /\ r.child_name = name /\ r.child_id # child

-----------------------------------------------------------------------------
(* DbProvider: the relational provider (kb/providers/db.rs) *)

\* DbProvider::get_directory_name: Ok(None) for the root, else the child_name of the row
DbGetDirectoryName(db, id) ==
    IF id = ROOT_DIR THEN Outcome(db, Result("Ok", None, None))
    ELSE IF DirRows(db, id) = {} THEN Outcome(db, NoSuchDirectory(id))
    ELSE Outcome(db, Result("Ok", None, Some((CHOOSE r \in DirRows(db, id) : TRUE).child_name)))

\* DbProvider::get_note_name
DbGetNoteName(db, id) ==
    IF NoteRows(db, id) = {} THEN Outcome(db, NoSuchNote(id))
    ELSE Outcome(db, Result("Ok", None, Some((CHOOSE r \in NoteRows(db, id) : TRUE).child_name)))

\* create_directory committing the kb_dirs row before the adjacency insert is tried
DbCreateDirectoryNoRollback(db, target, name) ==
    LET dir_raw_id == NextRowId(db.kb_dirs)
        inserted == [db EXCEPT !.kb_dirs = @ \cup {dir_raw_id}] IN
    IF target \notin db.kb_dirs THEN Outcome(inserted, NoSuchDirectory(target))
    ELSE IF UniqueViolation(db.kb_dir_children, target, name, dir_raw_id)
    THEN Outcome(inserted, TargetNameAlreadyExists(name))
    ELSE Outcome([inserted EXCEPT !.kb_dir_children = @ \cup
                                {[parent_id |-> target, child_id |-> dir_raw_id,
                                  child_name |-> name]}],
                 OkId(dir_raw_id))

\* a transaction dropped before its commit, the rows it inserted staying in the tables
TxnDroppedKeepsRows(db, txn, res) == Outcome(txn, res)

\* Transaction dropped by `?` before txn.commit(): the rows inserted so far (txn) are
\* rolled back and the tables are those of the start of the transaction (db)
TxnDropped(db, txn, res) == Outcome(db, res)

\* DbProvider::create_directory: the kb_dirs row, then the adjacency row; an error
\* drops the transaction, which rolls the kb_dirs row back
DbCreateDirectory(db, target, name) ==
    LET dir_raw_id == NextRowId(db.kb_dirs)
        txn == [db EXCEPT !.kb_dirs = @ \cup {dir_raw_id}]
    IN
    IF target \notin db.kb_dirs THEN TxnDropped(db, txn, NoSuchDirectory(target))
    ELSE IF UniqueViolation(db.kb_dir_children, target, name, dir_raw_id)
    THEN TxnDropped(db, txn, TargetNameAlreadyExists(name))
    ELSE Outcome([txn EXCEPT !.kb_dir_children = @ \cup
                                {[parent_id |-> target, child_id |-> dir_raw_id,
                                  child_name |-> name]}],
                 OkId(dir_raw_id))

\* create_note refusing a name that a sibling directory bears
DbCreateNoteSharedNames(db, target, content, name) ==
    LET note_raw_id == NextRowId(NoteIdsOf(db)) IN
    IF target \notin db.kb_dirs THEN Outcome(db, NoSuchDirectory(target))
    ELSE IF \/ UniqueViolation(db.kb_note_children, target, name, note_raw_id)
            \/ \E r \in db.kb_dir_children : r.parent_id = target /\ r.child_name = name
    THEN Outcome(db, TargetNameAlreadyExists(name))
    ELSE Outcome([db EXCEPT !.kb_notes = @ \cup {[id |-> note_raw_id, content |-> content]},
                            !.kb_note_children = @ \cup
                                {[parent_id |-> target, child_id |-> note_raw_id,
                                  child_name |-> name]}],
                 OkId(note_raw_id))

\* DbProvider::create_note: the kb_notes row, then the adjacency row; an error drops
\* the transaction
DbCreateNote(db, target, content, name) ==
    LET note_raw_id == NextRowId(NoteIdsOf(db))
        txn == [db EXCEPT !.kb_notes = @ \cup {[id |-> note_raw_id, content |-> content]}]
    IN
    IF target \notin db.kb_dirs THEN TxnDropped(db, txn, NoSuchDirectory(target))
    ELSE IF UniqueViolation(db.kb_note_children, target, name, note_raw_id)
    THEN TxnDropped(db, txn, TargetNameAlreadyExists(name))
    ELSE Outcome([txn EXCEPT !.kb_note_children = @ \cup
                                {[parent_id |-> target, child_id |-> note_raw_id,
                                  child_name |-> name]}],
                 OkId(note_raw_id))

\* update_note writing the row whether or not the note is there
DbUpdateNoteUpsert(db, id, content) ==
    Outcome([db EXCEPT !.kb_notes =
                 {n \in @ : n.id # id} \cup {[id |-> id, content |-> content]}],
            Ok)

\* DbProvider::update_note
DbUpdateNote(db, id, content) ==
    IF id \notin NoteIdsOf(db) THEN Outcome(db, NoSuchNote(id))
    ELSE Outcome([db EXCEPT !.kb_notes =
                      {n \in @ : n.id # id} \cup {[id |-> id, content |-> content]}],
                 Ok)

\* DbProvider::delete_note: the kb_notes row goes, and its adjacency row with it
DbDeleteNote(db, id) ==
    IF id \notin NoteIdsOf(db) THEN Outcome(db, NoSuchNote(id))
    ELSE Outcome([db EXCEPT !.kb_notes = {n \in @ : n.id # id},
                            !.kb_note_children = {r \in @ : r.child_id # id}],
                 Ok)

\* the directories delete_dir_1.sql / delete_dir_2.sql remove: id and everything below it
RECURSIVE Subtree(_, _, _)
Subtree(db, S, fuel) ==
    LET more == {r.child_id : r \in {x \in db.kb_dir_children : x.parent_id \in S}} IN
    IF fuel = 0 \/ more \subseteq S THEN S ELSE Subtree(db, S \cup more, fuel - 1)

\* delete_directory without the guard on the root
DbDeleteDirectoryNoRootGuard(db, id) ==
    IF id \in DOMAIN db.mount_points THEN Outcome(db, OperationNotSupported)
    ELSE IF id \notin db.kb_dirs THEN Outcome(db, NoSuchDirectory(id))
    ELSE LET gone == Subtree(db, {id}, Cardinality(db.kb_dirs))
             goneNotes == {r.child_id : r \in {x \in db.kb_note_children : x.parent_id \in gone}}
         IN Outcome([db EXCEPT !.kb_dirs = @ \ gone,
                               !.kb_dir_children = {r \in @ : r.child_id \notin gone},
                               !.kb_note_children = {r \in @ : r.parent_id \notin gone},
                               !.kb_notes = {n \in @ : n.id \notin goneNotes}],
                    Ok)

\* delete_directory removing the directory and the notes in it, not what lies below
DbDeleteDirectoryShallow(db, id) ==
    IF id = ROOT_DIR THEN Outcome(db, CannotDeleteRoot)
    ELSE IF id \in DOMAIN db.mount_points THEN Outcome(db, OperationNotSupported)
    ELSE IF id \notin db.kb_dirs THEN Outcome(db, NoSuchDirectory(id))
    ELSE LET goneNotes == {r.child_id : r \in {x \in db.kb_note_children : x.parent_id = id}}
         IN Outcome([db EXCEPT !.kb_dirs = @ \ {id},
                               !.kb_dir_children = {r \in @ : r.child_id # id},
                               !.kb_note_children = {r \in @ : r.parent_id # id},
                               !.kb_notes = {n \in @ : n.id \notin goneNotes}],
                    Ok)

\* DbProvider::delete_directory
DbDeleteDirectory(db, id) ==
    IF id = ROOT_DIR THEN Outcome(db, CannotDeleteRoot)
    ELSE IF id \in DOMAIN db.mount_points THEN Outcome(db, OperationNotSupported)
    ELSE IF id \notin db.kb_dirs THEN Outcome(db, NoSuchDirectory(id))
    ELSE LET gone == Subtree(db, {id}, Cardinality(db.kb_dirs))
             goneNotes == {r.child_id : r \in {x \in db.kb_note_children : x.parent_id \in gone}}
         IN Outcome([db EXCEPT !.kb_dirs = @ \ gone,
                               !.kb_dir_children = {r \in @ : r.child_id \notin gone},
                               !.kb_note_children = {r \in @ : r.parent_id \notin gone},
                               !.kb_notes = {n \in @ : n.id \notin goneNotes}],
                    Ok)

\* rename_directory without the guard on mount points
DbRenameDirectoryNoMountGuard(db, id, new_name) ==
    IF id = ROOT_DIR THEN Outcome(db, CannotRenameRoot)
    ELSE IF DirRows(db, id) = {} THEN Outcome(db, NoSuchDirectory(id))
    ELSE LET row == CHOOSE r \in DirRows(db, id) : TRUE IN
         IF UniqueViolation(db.kb_dir_children, row.parent_id, new_name, id)
         THEN Outcome(db, TargetNameAlreadyExists(new_name))
         ELSE Outcome([db EXCEPT !.kb_dir_children =
                           (@ \ {row}) \cup {[row EXCEPT !.child_name = new_name]}],
                      Ok)

\* DbProvider::rename_directory
DbRenameDirectory(db, id, new_name) ==
    IF id = ROOT_DIR THEN Outcome(db, CannotRenameRoot)
    ELSE IF id \in DOMAIN db.mount_points THEN Outcome(db, OperationNotSupported)
    ELSE IF DirRows(db, id) = {} THEN Outcome(db, NoSuchDirectory(id))
    ELSE LET row == CHOOSE r \in DirRows(db, id) : TRUE IN
         IF UniqueViolation(db.kb_dir_children, row.parent_id, new_name, id)
         THEN Outcome(db, TargetNameAlreadyExists(new_name))
         ELSE Outcome([db EXCEPT !.kb_dir_children =
                           (@ \ {row}) \cup {[row EXCEPT !.child_name = new_name]}],
                      Ok)

\* DbProvider::rename_note
DbRenameNote(db, id, new_name) ==
    IF NoteRows(db, id) = {} THEN Outcome(db, NoSuchNote(id))
    ELSE LET row == CHOOSE r \in NoteRows(db, id) : TRUE IN
         IF UniqueViolation(db.kb_note_children, row.parent_id, new_name, id)
         THEN Outcome(db, TargetNameAlreadyExists(new_name))
         ELSE Outcome([db EXCEPT !.kb_note_children =
                           (@ \ {row}) \cup {[row EXCEPT !.child_name = new_name]}],
                      Ok)

\* an ancestor check that compares the destination with the item and walks no further
CheckAncestorsSelfOnly(db, destination, id, fuel) == destination = id

\* check_ancestors.sql: does walking parent links up from `destination` meet `id`
\* (destination itself included)
RECURSIVE CheckAncestors(_, _, _, _)
CheckAncestors(db, destination, id, fuel) ==
    IF destination = id THEN TRUE
    ELSE IF fuel = 0 \/ DirRows(db, destination) = {} THEN FALSE
    ELSE CheckAncestors(db, (CHOOSE r \in DirRows(db, destination) : TRUE).parent_id,
                        id, fuel - 1)

\* an UPDATE that adds the row under the destination and keeps the row it had
DbReparentDirectoryKeepsOld(db, id, destination, name) ==
    IF destination \notin db.kb_dirs THEN Outcome(db, SqliteError)
    ELSE IF UniqueViolation(db.kb_dir_children, destination, name, id)
    THEN Outcome(db, TargetNameAlreadyExists(name))
    ELSE Outcome([db EXCEPT !.kb_dir_children =
                      @ \cup {[parent_id |-> destination, child_id |-> id,
                               child_name |-> name]}],
                 Ok)

\* the UPDATE of move_directory, once the loop check has passed
DbReparentDirectory(db, id, destination, name) ==
    IF destination \notin db.kb_dirs THEN Outcome(db, SqliteError)
    ELSE IF UniqueViolation(db.kb_dir_children, destination, name, id)
    THEN Outcome(db, TargetNameAlreadyExists(name))
    ELSE Outcome([db EXCEPT !.kb_dir_children =
                      {IF r.child_id = id THEN [r EXCEPT !.parent_id = destination] ELSE r
                           : r \in @}],
                 Ok)

\* move_directory going on to the UPDATE whatever the ancestor check found
DbMoveDirectoryNoLoopCheck(db, id, destination) ==
    IF id = ROOT_DIR THEN Outcome(db, CannotMoveRoot)
    ELSE IF id \in DOMAIN db.mount_points THEN Outcome(db, OperationNotSupported)
    ELSE LET name == DbGetDirectoryName(db, id).res IN
         IF name.tag # "Ok" THEN Outcome(db, name)
         ELSE DbReparentDirectory(db, id, destination, name.name[1])

\* move_directory without the test of the mount points
DbMoveDirectoryNoMountGuard(db, id, destination) ==
    IF id = ROOT_DIR THEN Outcome(db, CannotMoveRoot)
    ELSE LET name == DbGetDirectoryName(db, id).res IN
         IF name.tag # "Ok" THEN Outcome(db, name)
         ELSE IF CheckAncestors(db, destination, id, Cardinality(db.kb_dirs))
         THEN Outcome(db, WouldCreateLoop)
         ELSE DbReparentDirectory(db, id, destination, name.name[1])

\* DbProvider::move_directory
DbMoveDirectory(db, id, destination) ==
    IF id = ROOT_DIR THEN Outcome(db, CannotMoveRoot)
    ELSE IF id \in DOMAIN db.mount_points THEN Outcome(db, OperationNotSupported)
    ELSE LET name == DbGetDirectoryName(db, id).res IN
         IF name.tag # "Ok" THEN Outcome(db, name)
         ELSE IF CheckAncestors(db, destination, id, Cardinality(db.kb_dirs))
         THEN Outcome(db, WouldCreateLoop)
         ELSE DbReparentDirectory(db, id, destination, name.name[1])

\* move_note leaving the unique-constraint violation unmapped
DbMoveNoteUnmapped(db, id, destination) ==
    LET name == DbGetNoteName(db, id).res IN
    IF name.tag # "Ok" THEN Outcome(db, name)
    ELSE IF destination \notin db.kb_dirs THEN Outcome(db, SqliteError)
    ELSE IF UniqueViolation(db.kb_note_children, destination, name.name[1], id)
    THEN Outcome(db, SqliteError)
    ELSE Outcome([db EXCEPT !.kb_note_children =
                      {IF r.child_id = id THEN [r EXCEPT !.parent_id = destination] ELSE r
                           : r \in @}],
                 Ok)

\* DbProvider::move_note
DbMoveNote(db, id, destination) ==
    LET name == DbGetNoteName(db, id).res IN
    IF name.tag # "Ok" THEN Outcome(db, name)
    ELSE IF destination \notin db.kb_dirs THEN Outcome(db, SqliteError)
    ELSE IF UniqueViolation(db.kb_note_children, destination, name.name[1], id)
    THEN Outcome(db, TargetNameAlreadyExists(name.name[1]))
    ELSE Outcome([db EXCEPT !.kb_note_children =
                      {IF r.child_id = id THEN [r EXCEPT !.parent_id = destination] ELSE r
                           : r \in @}],
                 Ok)

-----------------------------------------------------------------------------
(* ArchiveProvider: every write operation is refused (kb/providers/archive.rs) *)

\* a write operation that empties the log and reports success
ArchiveWriteClearsLog(db) == Outcome([db EXCEPT !.kb_newsletters = {}], Ok)

\* create_note, create_directory, update_note, delete_note, delete_directory,
\* rename_directory, rename_note, move_directory, move_note, add_mount_point: each
\* ignores its arguments
ArchiveWrite(db) == Outcome(db, OperationNotSupported)

-----------------------------------------------------------------------------
(* Tree and the DirectoryRef / NoteRef façade (kb.rs) *)

FullId(provider, id) == [provider |-> provider, id |-> id]

\* make_directory_ref / make_note_ref handing out a reference for any provider id
IsRegisteredAlways(provider_id) == TRUE

\* Tree::make_directory_ref / make_note_ref succeed for registered providers only
IsRegistered(provider_id) == provider_id \in Providers

\* what running a command gives: the context afterwards, the reply, the provider calls made
Effect(ctx, res, calls) == [ctx |-> ctx, res |-> res, calls |-> calls]

Call(provider, method) == [provider |-> provider, method |-> method]

\* a façade method forwarding to self.provider().borrow_mut().<method>(..)
Forward(provider, method, dbOutcome, archiveOutcome) ==
    LET o == IF provider = ROOT_PROVIDER_ID THEN dbOutcome ELSE archiveOutcome IN
    Effect(o.db, o.res, <<Call(provider, method)>>)

-----------------------------------------------------------------------------
(* Reading: listings, parents and notes *)

\* ProviderUserContext.permissions: the flag the feed looks at, and one it does not
Permissions == [receive_feedback : BOOLEAN, admin : BOOLEAN]

\* ArchiveProvider::new: ids_map, the feeds by their position in the list of newsletters
ids_map == [i \in {0} |-> "feedback"]

\* names_map[name].1: Newsletter::description (transliterated)
FeedDescription(name) == "Obratnaya svyaz"

\* ctx.newsletters[name](&uctx.permissions): FeedbackNewsletter::allowed
Allowed(name, permissions) == permissions.receive_feedback

\* make_note_name: a string made of the entry's id (and its timestamp, left out)
make_note_name(id) == "No " \o ToString(id)

\* a (name, ItemRef) pair of Directory.children
Child(kind, provider, id, name) == [kind |-> kind, provider |-> provider, id |-> id, name |-> name]

Listing(children) == [tag |-> "Ok", children |-> children]
OkParent(parent) == [tag |-> "Ok", parent |-> parent]
OkNote(content) == [tag |-> "Ok", content |-> content]
PermissionDenied == Result("PermissionDenied", None, None)

\* read_directory listing every feed under the synthetic root, whoever asks
ArchiveReadDirectoryUnfiltered(db, permissions, id) ==
    IF id = ROOT_DIR_ID
    THEN Listing({Child("directory", ARCHIVE_PROVIDER_ID, k, FeedDescription(ids_map[k]))
                      : k \in DOMAIN ids_map})
    ELSE IF id \notin DOMAIN ids_map THEN NoSuchDirectory(id)
    ELSE IF ~Allowed(ids_map[id], permissions) THEN PermissionDenied
    ELSE Listing({Child("note", ARCHIVE_PROVIDER_ID, r.id, make_note_name(r.id))
                      : r \in {e \in db.kb_newsletters : e.name = ids_map[id]}})

\* ArchiveProvider::read_directory
ArchiveReadDirectory(db, permissions, id) ==
    IF id = ROOT_DIR_ID
    THEN Listing({Child("directory", ARCHIVE_PROVIDER_ID, k, FeedDescription(ids_map[k]))
                      : k \in {i \in DOMAIN ids_map : Allowed(ids_map[i], permissions)}})
    ELSE IF id \notin DOMAIN ids_map THEN NoSuchDirectory(id)
    ELSE IF ~Allowed(ids_map[id], permissions) THEN PermissionDenied
    ELSE Listing({Child("note", ARCHIVE_PROVIDER_ID, r.id, make_note_name(r.id))
                      : r \in {e \in db.kb_newsletters : e.name = ids_map[id]}})

\* read_note without the check of the feed's predicate
ArchiveReadNoteUnchecked(db, permissions, id) ==
    LET rows == {e \in db.kb_newsletters : e.id = id} IN
    IF rows = {} THEN SqliteError
    ELSE OkNote((CHOOSE e \in rows : TRUE).content)

\* ArchiveProvider::read_note
ArchiveReadNote(db, permissions, id) ==
    LET rows == {e \in db.kb_newsletters : e.id = id} IN
    IF rows = {} THEN SqliteError
    ELSE LET e == CHOOSE r \in rows : TRUE IN
         IF ~Allowed(e.name, permissions) THEN PermissionDenied ELSE OkNote(e.content)

\* the SELECT of read_directory without its part over kb_note_children
LocalChildrenDirsOnly(db, id) ==
    {Child("directory", ROOT_PROVIDER_ID, r.child_id, r.child_name)
         : r \in {x \in db.kb_dir_children : x.parent_id = id}}

\* the rows read_directory selects for a directory of the relational provider
LocalChildren(db, id) ==
    {Child("note", ROOT_PROVIDER_ID, r.child_id, r.child_name)
         : r \in {x \in db.kb_note_children : x.parent_id = id}}
    \cup {Child("directory", ROOT_PROVIDER_ID, r.child_id, r.child_name)
              : r \in {x \in db.kb_dir_children : x.parent_id = id}}

\* read_directory listing the local rows of a mount point beside the mounted root
DbReadDirectoryMerged(db, permissions, id) ==
    IF id \in DOMAIN db.mount_points
    THEN Listing(ArchiveReadDirectory(db, permissions, ROOT_DIR_ID).children
                     \cup LocalChildren(db, id))
    ELSE Listing(LocalChildren(db, id))

\* DbProvider::read_directory: a mount point is read through the mounted provider's
\* root; otherwise the rows under the id, the kb_dirs row of the id being ignored
DbReadDirectory(db, permissions, id) ==
    IF id \in DOMAIN db.mount_points
    THEN ArchiveReadDirectory(db, permissions, ROOT_DIR_ID)
    ELSE Listing(LocalChildren(db, id))

\* DbProvider::get_directory_parent
DbGetDirectoryParent(db, id) ==
    IF id = ROOT_DIR THEN OkParent(None)
    ELSE IF DirRows(db, id) = {} THEN NoSuchDirectory(id)
    ELSE OkParent(Some(FullId(ROOT_PROVIDER_ID, (CHOOSE r \in DirRows(db, id) : TRUE).parent_id)))

\* DbProvider::get_note_parent
DbGetNoteParent(db, id) ==
    IF NoteRows(db, id) = {} THEN NoSuchNote(id)
    ELSE OkParent(Some(FullId(ROOT_PROVIDER_ID, (CHOOSE r \in NoteRows(db, id) : TRUE).parent_id)))

\* DbProvider::read_note
DbReadNote(db, id) ==
    LET rows == {n \in db.kb_notes : n.id = id} IN
    IF rows = {} THEN NoSuchNote(id) ELSE OkNote((CHOOSE n \in rows : TRUE).content)

\* ArchiveProvider.mounted_on: the directory Tree::new registered as the mount point
mounted_on(db) ==
    FullId(ROOT_PROVIDER_ID,
           CHOOSE d \in DOMAIN db.mount_points : db.mount_points[d] = ARCHIVE_PROVIDER_ID)

\* get_directory_parent of the synthetic root answering with the mount directory itself
ArchiveGetDirectoryParentMountDir(db, id) ==
    IF id = ROOT_DIR_ID THEN OkParent(Some(mounted_on(db)))
    ELSE OkParent(Some(FullId(ARCHIVE_PROVIDER_ID, ROOT_DIR_ID)))

\* ArchiveProvider::get_directory_parent
ArchiveGetDirectoryParent(db, id) ==
    IF id = ROOT_DIR_ID THEN DbGetDirectoryParent(db, mounted_on(db).id)
    ELSE OkParent(Some(FullId(ARCHIVE_PROVIDER_ID, ROOT_DIR_ID)))

\* get_note_parent answering with the synthetic root for every entry
ArchiveGetNoteParentRoot(db, id) ==
    IF {e \in db.kb_newsletters : e.id = id} = {} THEN SqliteError
    ELSE OkParent(Some(FullId(ARCHIVE_PROVIDER_ID, ROOT_DIR_ID)))

\* ArchiveProvider::get_note_parent: the subdirectory of the feed the entry is filed under
ArchiveGetNoteParent(db, id) ==
    LET rows == {e \in db.kb_newsletters : e.id = id} IN
    IF rows = {} THEN SqliteError
    ELSE LET name == (CHOOSE e \in rows : TRUE).name IN
         OkParent(Some(FullId(ARCHIVE_PROVIDER_ID,
                              CHOOSE k \in DOMAIN ids_map : ids_map[k] = name)))

\* ArchiveProvider::get_directory_name
ArchiveGetDirectoryName(db, id) ==
    IF id = ROOT_DIR_ID THEN DbGetDirectoryName(db, mounted_on(db).id).res
    ELSE IF id \notin DOMAIN ids_map THEN NoSuchDirectory(id)
    ELSE Result("Ok", None, Some(FeedDescription(ids_map[id])))

\* ArchiveProvider::get_note_name
ArchiveGetNoteName(db, id) ==
    IF {e \in db.kb_newsletters : e.id = id} = {} THEN SqliteError
    ELSE Result("Ok", None, Some(make_note_name(id)))

-----------------------------------------------------------------------------
(* CommandSender: the closures it sends to the access task (db.rs) *)

CmdCreateDirectory(ctx, destination, name) ==
    IF ~IsRegistered(destination.provider)
    THEN Effect(ctx, NoSuchProvider(destination.provider), <<>>)
    ELSE Forward(destination.provider, "create_directory",
                 DbCreateDirectory(ctx, destination.id, name), ArchiveWrite(ctx))

CmdCreateNote(ctx, destination, name, content) ==
    IF ~IsRegistered(destination.provider)
    THEN Effect(ctx, NoSuchProvider(destination.provider), <<>>)
    ELSE Forward(destination.provider, "create_note",
                 DbCreateNote(ctx, destination.id, content, name), ArchiveWrite(ctx))

CmdRenameDirectory(ctx, directory, new_name) ==
    IF ~IsRegistered(directory.provider)
    THEN Effect(ctx, NoSuchProvider(directory.provider), <<>>)
    ELSE Forward(directory.provider, "rename_directory",
                 DbRenameDirectory(ctx, directory.id, new_name), ArchiveWrite(ctx))

CmdRenameNote(ctx, note, new_name) ==
    IF ~IsRegistered(note.provider)
    THEN Effect(ctx, NoSuchProvider(note.provider), <<>>)
    ELSE Forward(note.provider, "rename_note",
                 DbRenameNote(ctx, note.id, new_name), ArchiveWrite(ctx))

\* move_directory resolving the directory before it compares the providers
CmdMoveDirectoryRefFirst(ctx, directory, destination) ==
    IF ~IsRegistered(directory.provider)
    THEN Effect(ctx, NoSuchProvider(directory.provider), <<>>)
    ELSE IF directory.provider # destination.provider
    THEN Effect(ctx, CrossProviderMove, <<>>)
    ELSE Forward(directory.provider, "move_directory",
                 DbMoveDirectory(ctx, directory.id, destination.id), ArchiveWrite(ctx))

CmdMoveDirectory(ctx, directory, destination) ==
    IF directory.provider # destination.provider
    THEN Effect(ctx, CrossProviderMove, <<>>)
    ELSE IF ~IsRegistered(directory.provider)
    THEN Effect(ctx, NoSuchProvider(directory.provider), <<>>)
    ELSE Forward(directory.provider, "move_directory",
                 DbMoveDirectory(ctx, directory.id, destination.id), ArchiveWrite(ctx))

CmdMoveNote(ctx, note, destination) ==
    IF note.provider # destination.provider
    THEN Effect(ctx, CrossProviderMove, <<>>)
    ELSE IF ~IsRegistered(note.provider)
    THEN Effect(ctx, NoSuchProvider(note.provider), <<>>)
    ELSE Forward(note.provider, "move_note",
                 DbMoveNote(ctx, note.id, destination.id), ArchiveWrite(ctx))

CmdDeleteDirectory(ctx, directory) ==
    IF ~IsRegistered(directory.provider)
    THEN Effect(ctx, NoSuchProvider(directory.provider), <<>>)
    ELSE Forward(directory.provider, "delete_directory",
                 DbDeleteDirectory(ctx, directory.id), ArchiveWrite(ctx))

CmdDeleteNote(ctx, note) ==
    IF ~IsRegistered(note.provider)
    THEN Effect(ctx, NoSuchProvider(note.provider), <<>>)
    ELSE Forward(note.provider, "delete_note",
                 DbDeleteNote(ctx, note.id), ArchiveWrite(ctx))

CmdUpdateNote(ctx, note_id, content) ==
    IF ~IsRegistered(note_id.provider)
    THEN Effect(ctx, NoSuchProvider(note_id.provider), <<>>)
    ELSE Forward(note_id.provider, "update_note",
                 DbUpdateNote(ctx, note_id.id, content), ArchiveWrite(ctx))

\* a façade method of a read: the provider's answer, the context as it was
Answer(ctx, provider, method, dbResult, archiveResult) ==
    Effect(ctx, IF provider = ROOT_PROVIDER_ID THEN dbResult ELSE archiveResult,
           <<Call(provider, method)>>)

CmdDirectoryParent(ctx, permissions, directory) ==
    IF ~IsRegistered(directory.provider)
    THEN Effect(ctx, NoSuchProvider(directory.provider), <<>>)
    ELSE Answer(ctx, directory.provider, "get_directory_parent",
                DbGetDirectoryParent(ctx, directory.id),
                ArchiveGetDirectoryParent(ctx, directory.id))

CmdNoteParent(ctx, permissions, note) ==
    IF ~IsRegistered(note.provider)
    THEN Effect(ctx, NoSuchProvider(note.provider), <<>>)
    ELSE Answer(ctx, note.provider, "get_note_parent",
                DbGetNoteParent(ctx, note.id), ArchiveGetNoteParent(ctx, note.id))

CmdDirectoryName(ctx, permissions, directory) ==
    IF ~IsRegistered(directory.provider)
    THEN Effect(ctx, NoSuchProvider(directory.provider), <<>>)
    ELSE Answer(ctx, directory.provider, "get_directory_name",
                DbGetDirectoryName(ctx, directory.id).res,
                ArchiveGetDirectoryName(ctx, directory.id))

CmdNoteName(ctx, permissions, note) ==
    IF ~IsRegistered(note.provider)
    THEN Effect(ctx, NoSuchProvider(note.provider), <<>>)
    ELSE Answer(ctx, note.provider, "get_note_name",
                DbGetNoteName(ctx, note.id).res, ArchiveGetNoteName(ctx, note.id))

CmdReadDirectory(ctx, permissions, directory) ==
    IF ~IsRegistered(directory.provider)
    THEN Effect(ctx, NoSuchProvider(directory.provider), <<>>)
    ELSE Answer(ctx, directory.provider, "read_directory",
                DbReadDirectory(ctx, permissions, directory.id),
                ArchiveReadDirectory(ctx, permissions, directory.id))

CmdReadNote(ctx, permissions, note) ==
    IF ~IsRegistered(note.provider)
    THEN Effect(ctx, NoSuchProvider(note.provider), <<>>)
    ELSE Answer(ctx, note.provider, "read_note",
                DbReadNote(ctx, note.id), ArchiveReadNote(ctx, permissions, note.id))

\* a command as a value: the CommandSender method and its arguments
Command(op, item, destination, name, content) ==
    [op |-> op, item |-> item, destination |-> destination, name |-> name,
     content |-> content]

\* ErasedCommand::run: the closure applied to the context
RunCommand(ctx, cmd) ==
    CASE cmd.op = "create_directory" -> CmdCreateDirectory(ctx, cmd.destination, cmd.name)
      [] cmd.op = "create_note" -> CmdCreateNote(ctx, cmd.destination, cmd.name, cmd.content)
      [] cmd.op = "rename_directory" -> CmdRenameDirectory(ctx, cmd.item, cmd.name)
      [] cmd.op = "rename_note" -> CmdRenameNote(ctx, cmd.item, cmd.name)
      [] cmd.op = "move_directory" -> CmdMoveDirectory(ctx, cmd.item, cmd.destination)
      [] cmd.op = "move_note" -> CmdMoveNote(ctx, cmd.item, cmd.destination)
      [] cmd.op = "delete_directory" -> CmdDeleteDirectory(ctx, cmd.item)
      [] cmd.op = "delete_note" -> CmdDeleteNote(ctx, cmd.item)
      [] cmd.op = "update_note" -> CmdUpdateNote(ctx, cmd.item, cmd.content)

-----------------------------------------------------------------------------
(* Inputs *)

\* ids a caller may present to the relational provider: those of the rows that
\* exist, and one id that never exists
DirInputs == context.kb_dirs \cup {MaxItems + 2}
NoteInputs == NoteIdsOf(context) \cup {MaxItems + 1}

\* addresses in the relational provider
DbDirs == {FullId(ROOT_PROVIDER_ID, i) : i \in DirInputs}
DbNotes == {FullId(ROOT_PROVIDER_ID, i) : i \in NoteInputs}

\* addresses of a move: the relational ones, and one under the archive provider and
\* one under a provider that is not registered
MoveDirs == DbDirs \cup {FullId(p, 0) : p \in ProviderIds \ {ROOT_PROVIDER_ID}}
MoveNotes == DbNotes \cup {FullId(p, 1) : p \in ProviderIds \ {ROOT_PROVIDER_ID}}

NoFullId == FullId(ROOT_PROVIDER_ID, ROOT_DIR)

-----------------------------------------------------------------------------
(* Initial state: Tree::new on a freshly bootstrapped database, AccessTask::new *)

InitContext ==
    [kb_dirs |-> {ROOT_DIR, 1},
     kb_dir_children |-> {[parent_id |-> ROOT_DIR, child_id |-> 1, child_name |-> ARCHIVE_DIR]},
     kb_notes |-> {},
     kb_note_children |-> {},
     kb_newsletters |-> {},
     mount_points |-> [d \in {1} |-> ARCHIVE_PROVIDER_ID]]

NoLast == [op |-> "none", res |-> Ok, calls |-> <<>>]

\* a DialogState: its variant and the ids and name the variant carries
DialogState(state, id, item, name) ==
    [state |-> state, id |-> id, item |-> item, name |-> name]

\* UserDialogData::new: DialogState::default() is Initial; the permissions are those
\* DialogStorage::new read for the user
DialogData(state, edit_kb) == [state |-> state, edit_kb |-> edit_kb]

InitDialog == DialogData(DialogState("Initial", NoFullId, NoFullId, ""), FALSE)

Init ==
    /\ context = InitContext
    /\ last = NoLast
    /\ pc = [c \in Callers |-> "idle"]
    /\ pending = [c \in Callers |-> Command("none", NoFullId, NoFullId, "", "")]
    /\ waiters = <<>>
    /\ queue = <<>>
    /\ oneshot = [c \in Callers |-> <<>>]
    /\ actor = <<>>
    /\ task = "running"
    /\ accepted = <<>>
    /\ executed = <<>>
    /\ sent = [c \in Callers |-> <<>>]
    /\ got = [c \in Callers |-> <<>>]
    /\ dialog = InitDialog

-----------------------------------------------------------------------------
(* Commands run one after another, directly against the context *)

\* row ids stay within the model's bounds
WithinBounds(e) ==
    /\ e.ctx.kb_dirs \subseteq DirIds
    /\ NoteIdsOf(e.ctx) \subseteq NoteIds
    /\ Cardinality(e.ctx.kb_dirs) + Cardinality(e.ctx.kb_notes) <= MaxItems + 2

\* a call: the caller holds no result of an earlier call
Apply(op, e) ==
    /\ last = NoLast
    /\ WithinBounds(e)
    /\ context' = e.ctx
    /\ last' = [op |-> op, res |-> e.res, calls |-> e.calls]
    /\ UNCHANGED actorVars

CreateDirectory(destination, name) ==
    Apply("create_directory", CmdCreateDirectory(context, destination, name))
CreateNote(destination, name, content) ==
    Apply("create_note", CmdCreateNote(context, destination, name, content))
RenameDirectory(directory, new_name) ==
    Apply("rename_directory", CmdRenameDirectory(context, directory, new_name))
RenameNote(note, new_name) ==
    Apply("rename_note", CmdRenameNote(context, note, new_name))
MoveDirectory(directory, destination) ==
    Apply("move_directory", CmdMoveDirectory(context, directory, destination))
MoveNote(note, destination) ==
    Apply("move_note", CmdMoveNote(context, note, destination))
DeleteDirectory(directory) ==
    Apply("delete_directory", CmdDeleteDirectory(context, directory))
DeleteNote(note) ==
    Apply("delete_note", CmdDeleteNote(context, note))

\* the caller takes the result of its call; its next call can start
Return ==
    /\ last # NoLast
    /\ last' = NoLast
    /\ UNCHANGED <<dialog, context, actorVars>>

Next ==
    \/ Return
    \/ \E d \in DbDirs, n \in Names : CreateDirectory(d, n)
    \/ \E d \in DbDirs, n \in Names, c \in Contents : CreateNote(d, n, c)
    \/ \E d \in DbDirs, n \in Names : RenameDirectory(d, n)
    \/ \E x \in DbNotes, n \in Names : RenameNote(x, n)
    \/ \E d \in MoveDirs, dest \in MoveDirs : MoveDirectory(d, dest)
    \/ \E x \in MoveNotes, dest \in MoveDirs : MoveNote(x, dest)
    \/ \E d \in DbDirs : DeleteDirectory(d)
    \/ \E x \in DbNotes : DeleteNote(x)

Spec == Init /\ [][Next]_vars

-----------------------------------------------------------------------------
(* The access task and its callers (db.rs: CommandSender::send_erased,           *)
(* AccessTask::run_blocking)                                                     *)

\* the commands callers submit in the concurrent runs: their results and their
\* effect depend on the order in which they are run
ActorCommands ==
    { Command("create_directory", NoFullId, FullId(ROOT_PROVIDER_ID, ROOT_DIR), "a", ""),
      Command("rename_directory", FullId(ROOT_PROVIDER_ID, 2), NoFullId, "b", "") }

\* CommandPackage: the command and the sending half of the caller's oneshot channel
CommandPackage(caller, command) == [caller |-> caller, command |-> command]

\* send_erased up to the point where it waits in mpsc::Sender::send: the oneshot
\* channel is made, the package built, the caller queues for a permit of the channel
SendErased(c, cmd) ==
    /\ pc[c] = "idle"
    /\ Len(accepted) + Len(waiters) < MaxSends
    /\ pc' = [pc EXCEPT ![c] = "sending"]
    /\ pending' = [pending EXCEPT ![c] = cmd]
    /\ oneshot' = [oneshot EXCEPT ![c] = <<>>]
    /\ waiters' = Append(waiters, c)
    /\ sent' = [sent EXCEPT ![c] = Append(@, cmd)]
    /\ UNCHANGED <<dialog, context, last, queue, actor, task, accepted, executed, got>>

\* mpsc::Sender::send completes: the caller first in line takes the free slot of the
\* buffer, and goes on to wait for the reply
ChannelSend(c) ==
    /\ task = "running"
    /\ pc[c] = "sending"
    /\ waiters # <<>> /\ Head(waiters) = c
    /\ Len(queue) < ChannelCapacity
    /\ queue' = Append(queue, CommandPackage(c, pending[c]))
    /\ waiters' = Tail(waiters)
    /\ accepted' = Append(accepted, CommandPackage(c, pending[c]))
    /\ pc' = [pc EXCEPT ![c] = "awaiting"]
    /\ UNCHANGED <<dialog, context, last, pending, oneshot, actor, task, executed, sent, got>>

\* the loop taking the next package while one is still in hand
LoopAtRecvAlways(inHand) == TRUE

\* run_blocking reaches blocking_recv only with no package in hand
LoopAtRecv(inHand) == inHand = <<>>

\* blocking_recv returns the oldest package of the buffer, which frees its slot
ActorRecv ==
    /\ task = "running"
    /\ LoopAtRecv(actor)
    /\ queue # <<>>
    /\ actor' = Append(actor, [package |-> Head(queue), at |-> "run", result |-> Ok])
    /\ queue' = Tail(queue)
    /\ UNCHANGED <<dialog, context, last, pc, pending, waiters, oneshot, task, accepted, executed, sent, got>>

\* the command run against a copy of the context that is then thrown away
ContextAfterRunDiscarded(ctx, e) == ctx

\* command.run(&mut self.context): the context is what the command left
ContextAfterRun(ctx, e) == e.ctx

RemoveAt(seq, i) == SubSeq(seq, 1, i - 1) \o SubSeq(seq, i + 1, Len(seq))

\* command_package.command.run(&mut self.context)
ActorRun(i) ==
    /\ task = "running"
    /\ actor[i].at = "run"
    /\ LET e == RunCommand(context, actor[i].package.command) IN
           /\ context' = ContextAfterRun(context, e)
           /\ actor' = [actor EXCEPT ![i] = [@ EXCEPT !.at = "reply", !.result = e.res]]
    /\ executed' = Append(executed, actor[i].package)
    /\ UNCHANGED <<dialog, last, pc, pending, waiters, queue, oneshot, task, accepted, sent, got>>

\* the reply sent before the command's result is in
ReplyValueUnset(entry) == Ok

\* the value sent back is the result of the package's own command
ReplyValue(entry) == entry.result

\* the receiving half of the caller's oneshot channel lives as long as the future of
\* its send_erased call, which owns it
ReceiverAlive(c) == pc[c] = "awaiting"

\* the value never reaching the channel
OneshotSendLost(channel, value) == channel

\* oneshot::Sender::send
OneshotSend(channel, value) == Append(channel, value)

\* the loop giving up once a command has returned an error
TaskAfterReplyStopsOnError(result) == IF result.tag = "Ok" THEN "running" ELSE "exited"

\* the loop does not look at the result it has sent: it goes round again
TaskAfterReply(result) == "running"

\* response_sender.send(result) returns Ok: the reply goes to the oneshot channel of
\* the package
ActorReply(i) ==
    /\ task = "running"
    /\ actor[i].at = "reply"
    /\ ReceiverAlive(actor[i].package.caller)
    /\ oneshot' = [oneshot EXCEPT ![actor[i].package.caller] =
                       OneshotSend(@, ReplyValue(actor[i]))]
    /\ actor' = RemoveAt(actor, i)
    /\ task' = TaskAfterReply(actor[i].result)
    /\ UNCHANGED <<dialog, context, last, pc, pending, waiters, queue, accepted, executed, sent, got>>

\* response_receiver.await completes: send_erased returns the reply
ResponseRecv(c) ==
    /\ pc[c] = "awaiting"
    /\ oneshot[c] # <<>>
    /\ got' = [got EXCEPT ![c] = Append(@, Head(oneshot[c]))]
    /\ oneshot' = [oneshot EXCEPT ![c] = Tail(@)]
    /\ pc' = [pc EXCEPT ![c] = "idle"]
    /\ UNCHANGED <<dialog, context, last, pending, waiters, queue, actor, task, accepted, executed, sent>>

CallerStep(c) ==
    \/ \E cmd \in ActorCommands : SendErased(c, cmd)
    \/ ChannelSend(c)
    \/ ResponseRecv(c)

ActorStep ==
    \/ ActorRecv
    \/ \E i \in DOMAIN actor : ActorRun(i)
    \/ \E i \in DOMAIN actor : ActorReply(i)

NextActor ==
    \/ \E c \in Callers, cmd \in ActorCommands : SendErased(c, cmd)
    \/ \E c \in Callers : ChannelSend(c)
    \/ ActorRecv
    \/ \E i \in DOMAIN actor : ActorRun(i)
    \/ \E i \in DOMAIN actor : ActorReply(i)
    \/ \E c \in Callers : ResponseRecv(c)

SpecActor == Init /\ [][NextActor]_vars

\* the access task runs on its own thread and every caller's future is polled again
\* once it is woken
SpecActorFair ==
    /\ Init
    /\ [][NextActor]_vars
    /\ WF_vars(ActorStep)
    /\ \A c \in Callers : WF_vars(ChannelSend(c)) /\ WF_vars(ResponseRecv(c))

-----------------------------------------------------------------------------
(* Commands that fail, among them one with a storage error no ProviderError names *)

\* a directory id no create_directory of these runs ever returns
MissingDir == MaxItems + MaxSends + 2

\* create_directory fails the second time (TargetNameAlreadyExists); the move fails
\* with NoSuchDirectory before the directory exists, and afterwards with the
\* foreign-key error of the UPDATE, which move_directory maps to nothing
ErrorCommands ==
    { Command("create_directory", NoFullId, FullId(ROOT_PROVIDER_ID, ROOT_DIR), "a", ""),
      Command("move_directory", FullId(ROOT_PROVIDER_ID, 2),
              FullId(ROOT_PROVIDER_ID, MissingDir), "", "") }

NextErr ==
    \/ \E c \in Callers, cmd \in ErrorCommands : SendErased(c, cmd)
    \/ \E c \in Callers : ChannelSend(c)
    \/ ActorRecv
    \/ \E i \in DOMAIN actor : ActorRun(i)
    \/ \E i \in DOMAIN actor : ActorReply(i)
    \/ \E c \in Callers : ResponseRecv(c)

SpecErrFair ==
    /\ Init
    /\ [][NextErr]_vars
    /\ WF_vars(ActorStep)
    /\ \A c \in Callers : WF_vars(ChannelSend(c)) /\ WF_vars(ResponseRecv(c))

-----------------------------------------------------------------------------
(* Callers that go away, and the end of the access task                         *)

Without(seq, c) == SelectSeq(seq, LAMBDA x : x # c)

\* the future of a send_erased call is dropped before it returns: the caller leaves the
\* line of senders, the receiving half of its oneshot channel is dropped with whatever
\* it holds, and so is the CommandSender the future borrowed
Abandon(c) ==
    /\ pc[c] \in {"sending", "awaiting"}
    /\ pc' = [pc EXCEPT ![c] = "gone"]
    /\ waiters' = Without(waiters, c)
    /\ oneshot' = [oneshot EXCEPT ![c] = <<>>]
    /\ UNCHANGED <<dialog, context, last, pending, queue, actor, task, accepted, executed, sent, got>>

\* a caller with no call under way drops its CommandSender
DropSender(c) ==
    /\ pc[c] = "idle"
    /\ pc' = [pc EXCEPT ![c] = "gone"]
    /\ UNCHANGED <<dialog, context, last, pending, waiters, queue, oneshot, actor, task,
                   accepted, executed, sent, got>>

\* every clone of the CommandSender has been dropped
QueueClosed == \A c \in Callers : pc[c] \in {"gone", "panicked"}

\* blocking_recv returns None, on a closed and empty channel: break
ActorExit ==
    /\ task = "running"
    /\ LoopAtRecv(actor)
    /\ queue = <<>>
    /\ QueueClosed
    /\ task' = "exited"
    /\ UNCHANGED <<dialog, context, last, pc, pending, waiters, queue, oneshot, actor,
                   accepted, executed, sent, got>>

\* response_sender.send(result) returns Err, the receiving half being dropped: expect
\* panics, and the unwinding drops the receiver of the channel with the packages in it
ActorReplyFails(i) ==
    /\ task = "running"
    /\ actor[i].at = "reply"
    /\ ~ReceiverAlive(actor[i].package.caller)
    /\ task' = "panicked"
    /\ actor' = <<>>
    /\ queue' = <<>>
    /\ UNCHANGED <<dialog, context, last, pc, pending, waiters, oneshot, accepted, executed, sent, got>>

\* self.sender.send(pkg) returns Err, the receiver of the channel being dropped: panic!
CallerSendFails(c) ==
    /\ pc[c] = "sending"
    /\ task # "running"
    /\ pc' = [pc EXCEPT ![c] = "panicked"]
    /\ waiters' = Without(waiters, c)
    /\ UNCHANGED <<dialog, context, last, pending, queue, oneshot, actor, task,
                   accepted, executed, sent, got>>

\* response_receiver.await returns Err, the package having been dropped unanswered:
\* expect panics
CallerRecvFails(c) ==
    /\ pc[c] = "awaiting"
    /\ oneshot[c] = <<>>
    /\ task # "running"
    /\ pc' = [pc EXCEPT ![c] = "panicked"]
    /\ UNCHANGED <<dialog, context, last, pending, waiters, queue, oneshot, actor, task,
                   accepted, executed, sent, got>>

ActorCancelStep ==
    \/ ActorStep
    \/ ActorExit
    \/ \E i \in DOMAIN actor : ActorReplyFails(i)

NextCancel ==
    \/ \E c \in Callers, cmd \in ActorCommands : SendErased(c, cmd)
    \/ \E c \in Callers : ChannelSend(c)
    \/ ActorRecv
    \/ \E i \in DOMAIN actor : ActorRun(i)
    \/ \E i \in DOMAIN actor : ActorReply(i)
    \/ \E c \in Callers : ResponseRecv(c)
    \/ \E c \in Callers : Abandon(c)
    \/ \E c \in Callers : DropSender(c)
    \/ ActorExit
    \/ \E i \in DOMAIN actor : ActorReplyFails(i)
    \/ \E c \in Callers : CallerSendFails(c)
    \/ \E c \in Callers : CallerRecvFails(c)

SpecCancel == Init /\ [][NextCancel]_vars

\* as SpecActorFair; a caller going away is never forced
SpecCancelFair ==
    /\ Init
    /\ [][NextCancel]_vars
    /\ WF_vars(ActorCancelStep)
    /\ \A c \in Callers :
           /\ WF_vars(ChannelSend(c)) /\ WF_vars(ResponseRecv(c))
           /\ WF_vars(CallerSendFails(c)) /\ WF_vars(CallerRecvFails(c))

-----------------------------------------------------------------------------
(* The newsletter archive: Sink::store and the reads of ArchiveProvider *)

\* texts of the newsletter messages stored
Texts == {"t1", "t2"}

\* directory and entry ids a caller may present to the archive provider
ArchiveDirInputs == {ROOT_DIR_ID} \cup DOMAIN ids_map \cup {1}
EntryInputs == 1 .. (MaxItems + 1)

ReadCall(permissions, id) == [permissions |-> permissions, id |-> id]

\* Sink::store, run by NewsletterManager::manage under the newsletter's own name
SinkStore(newsletter_name, text) ==
    /\ last = NoLast
    /\ Cardinality(context.kb_newsletters) < MaxItems
    /\ LET id == NextRowId({e.id : e \in context.kb_newsletters}) IN
       /\ context' = [context EXCEPT !.kb_newsletters =
                          @ \cup {[id |-> id, name |-> newsletter_name, content |-> text]}]
       /\ last' = [op |-> "store", res |-> OkId(id), calls |-> <<>>]
    /\ UNCHANGED actorVars

\* DirectoryRef::read on a directory of the archive provider
ArchiveDirectoryRead(permissions, id) ==
    /\ last = NoLast
    /\ last' = [op |-> "read_directory",
                res |-> ArchiveReadDirectory(context, permissions, id),
                calls |-> <<ReadCall(permissions, id)>>]
    /\ UNCHANGED <<dialog, context, actorVars>>

\* NoteRef::read on an entry of the archive provider
ArchiveNoteRead(permissions, id) ==
    /\ last = NoLast
    /\ last' = [op |-> "read_note",
                res |-> ArchiveReadNote(context, permissions, id),
                calls |-> <<ReadCall(permissions, id)>>]
    /\ UNCHANGED <<dialog, context, actorVars>>

\* a caller reads an item taken from the listing it holds, with permissions of its choice
ArchiveListedRead(permissions) ==
    /\ last.op = "read_directory"
    /\ last.res.tag = "Ok"
    /\ \E c \in last.res.children :
           last' = IF c.kind = "directory"
                   THEN [op |-> "read_directory",
                         res |-> ArchiveReadDirectory(context, permissions, c.id),
                         calls |-> last.calls \o <<ReadCall(permissions, c.id)>>]
                   ELSE [op |-> "read_note",
                         res |-> ArchiveReadNote(context, permissions, c.id),
                         calls |-> last.calls \o <<ReadCall(permissions, c.id)>>]
    /\ UNCHANGED <<dialog, context, actorVars>>

\* the write operations of the Provider trait
WriteMethods ==
    {"create_note", "create_directory", "update_note", "delete_note", "delete_directory",
     "rename_directory", "rename_note", "move_directory", "move_note", "add_mount_point"}

\* a write operation called on the archive provider, for the item id
ArchiveWriteCall(method, permissions, id) ==
    /\ last = NoLast
    /\ LET o == ArchiveWrite(context) IN
       /\ context' = o.db
       /\ last' = [op |-> method, res |-> o.res, calls |-> <<ReadCall(permissions, id)>>]
    /\ UNCHANGED actorVars

NextArchive ==
    \/ Return
    \/ \E method \in WriteMethods, permissions \in Permissions,
          id \in ArchiveDirInputs \cup EntryInputs :
           ArchiveWriteCall(method, permissions, id)
    \/ \E i \in DOMAIN ids_map, t \in Texts : SinkStore(ids_map[i], t)
    \/ \E permissions \in Permissions, id \in ArchiveDirInputs :
           ArchiveDirectoryRead(permissions, id)
    \/ \E permissions \in Permissions, id \in EntryInputs : ArchiveNoteRead(permissions, id)
    \/ \E permissions \in Permissions : ArchiveListedRead(permissions)

SpecArchive == Init /\ [][NextArchive]_vars

-----------------------------------------------------------------------------
(* Starting again: Tree::new on the tables an earlier run has left (kb.rs, app.rs) *)

\* not a ProviderError: unreachable!() or unwrap() unwinds out of Tree::new
Panic == Result("Panic", None, None)

\* names users give in these runs: names are free text, the archive's name is one of them
RestartNames == {"a", ARCHIVE_DIR}

\* DbProvider::new: the tables as stored, no mount point yet
Unmounted(db) == [db EXCEPT !.mount_points = [d \in {} |-> ARCHIVE_PROVIDER_ID]]

\* DbProvider::add_mount_point
DbAddMountPoint(db, mount_dir, provider) ==
    [db EXCEPT !.mount_points =
         [d \in (DOMAIN @) \cup {mount_dir} |-> IF d = mount_dir THEN provider ELSE @[d]]]

\* the children of the root that .find(|&(name, _)| name == ARCHIVE_DIR) can return
FoundArchiveDir(db) == {c \in LocalChildren(db, ROOT_DIR) : c.name = ARCHIVE_DIR}

\* Tree::new: create the archive directory under the root or, when that fails, take
\* the child of the root that bears its name; mount the archive provider on it
TreeNew ==
    /\ last = NoLast \/ last.res = Panic
    /\ LET db == Unmounted(context)
           created == DbCreateDirectory(db, ROOT_DIR, ARCHIVE_DIR)
       IN
       IF created.res.tag = "Ok"
       THEN /\ context' = DbAddMountPoint(created.db, created.res.id[1], ARCHIVE_PROVIDER_ID)
            /\ last' = [op |-> "new", res |-> Ok, calls |-> <<>>]
       ELSE IF FoundArchiveDir(db) = {}
       THEN /\ context' = db
            /\ last' = [op |-> "new", res |-> Panic, calls |-> <<>>]
       ELSE \E item_ref \in FoundArchiveDir(db) :
                IF item_ref.kind = "directory"
                THEN /\ context' = DbAddMountPoint(db, item_ref.id, ARCHIVE_PROVIDER_ID)
                     /\ last' = [op |-> "new", res |-> Ok, calls |-> <<>>]
                ELSE /\ context' = db
                     /\ last' = [op |-> "new", res |-> Panic, calls |-> <<>>]
    /\ UNCHANGED actorVars

\* the caller takes its result; after a panic there is no caller
RunningReturn == last.res # Panic /\ Return

NextRestart ==
    \/ RunningReturn
    \/ TreeNew
    \/ \E d \in DbDirs, n \in RestartNames : CreateDirectory(d, n)
    \/ \E d \in DbDirs, n \in RestartNames, c \in Contents : CreateNote(d, n, c)
    \/ \E d \in DbDirs, n \in RestartNames : RenameDirectory(d, n)
    \/ \E x \in DbNotes, n \in RestartNames : RenameNote(x, n)
    \/ \E d \in DbDirs : DeleteDirectory(d)
    \/ \E x \in DbNotes : DeleteNote(x)

SpecRestart == Init /\ [][NextRestart]_vars

-----------------------------------------------------------------------------
(* Full ids as text: Display for FullDirectoryId / FullNoteId (db.rs) and
   parse_id_pair (callback_query.rs). Text is a sequence of characters. *)

\* the width given to ProviderId, DirectoryId and NoteId (u64 in the source)
IdBits == 8
IdMax == 2^IdBits - 1

DigitChars == <<"0", "1", "2", "3", "4", "5", "6", "7", "8", "9">>

\* Display for u64: the decimal digits, most significant first, no sign, no padding
RECURSIVE Decimal(_)
Decimal(n) ==
    IF n < 10 THEN <<DigitChars[n + 1]>>
    ELSE Decimal(n \div 10) \o <<DigitChars[(n % 10) + 1]>>

\* write!(f, "{}:{}", self.provider, self.directory) and the same for a note
FullIdToString(x) == Decimal(x.provider) \o <<":">> \o Decimal(x.id)

\* the digits of str::parse::<u64> read from the left: checked multiply and add
RECURSIVE ParseDigits(_, _)
ParseDigits(text, acc) ==
    IF text = <<>> THEN Some(acc)
    ELSE IF \A d \in 1 .. 10 : DigitChars[d] # Head(text) THEN None
    ELSE LET digit == CHOOSE d \in 0 .. 9 : DigitChars[d + 1] = Head(text)
             next == acc * 10 + digit IN
         IF next > IdMax THEN None ELSE ParseDigits(Tail(text), next)

\* str::parse::<u64>: one optional "+", then at least one digit, no overflow
ParseU64(text) ==
    LET digits == IF text # <<>> /\ Head(text) = "+" THEN Tail(text) ELSE text IN
    IF digits = <<>> THEN None ELSE ParseDigits(digits, 0)

\* str::split_once(':'): the text before and after the first colon
SplitOnce(text) ==
    LET colons == {i \in 1 .. Len(text) : text[i] = ":"} IN
    IF colons = {} THEN None
    ELSE LET i == CHOOSE k \in colons : \A j \in colons : k <= j IN
         Some(<<SubSeq(text, 1, i - 1), SubSeq(text, i + 1, Len(text))>>)

\* parse_id_pair with the two numbers taken in the other order
ParseIdPairSwapped(text) ==
    LET halves == SplitOnce(text) IN
    IF halves = None THEN None
    ELSE LET left == ParseU64(halves[1][1])
             right == ParseU64(halves[1][2]) IN
         IF left = None \/ right = None THEN None
         ELSE Some(FullId(right[1], left[1]))

\* parse_id_pair, and parse_directory_id / parse_note_id that name its two numbers
ParseIdPair(text) ==
    LET halves == SplitOnce(text) IN
    IF halves = None THEN None
    ELSE LET left == ParseU64(halves[1][1])
             right == ParseU64(halves[1][2]) IN
         IF left = None \/ right = None THEN None
         ELSE Some(FullId(left[1], right[1]))

\* the ids whose text is made: every local id, under small and extreme provider ids
TextIds == {FullId(p, i) : p \in {0, 1, 2, 10, IdMax}, i \in 0 .. IdMax}

\* a button's payload is made from a full id
IdToText(kind, x) ==
    /\ last = NoLast
    /\ last' = [op |-> "to_string", res |-> Result("Ok", None, Some(FullIdToString(x))),
                calls |-> <<kind, x>>]
    /\ UNCHANGED <<dialog, context, actorVars>>

\* parse_directory_id / parse_note_id: the pair, or QueryParseError::InvalidPayload
ParseFullId(text) ==
    IF ParseIdPair(text) = None THEN Result("InvalidPayload", None, None)
    ELSE OkId(ParseIdPair(text)[1])

\* the payload comes back in a callback query and is parsed
TextToId ==
    /\ last.op = "to_string"
    /\ last' = [op |-> "parse", res |-> ParseFullId(last.res.name[1]), calls |-> last.calls]
    /\ UNCHANGED <<dialog, context, actorVars>>

NextIds ==
    \/ Return
    \/ \E kind \in {"directory", "note"}, x \in TextIds : IdToText(kind, x)
    \/ TextToId

SpecIds == Init /\ [][NextIds]_vars

-----------------------------------------------------------------------------
(* What the claims speak of *)

Root == FullId(ROOT_PROVIDER_ID, ROOT_DIR)
InDb(id) == FullId(ROOT_PROVIDER_ID, id)

\* the directories whose parent is one of S
ChildDirs(db, S) == {r.child_id : r \in {x \in db.kb_dir_children : x.parent_id \in S}}

\* A together with every directory reached from it by going down to children
RECURSIVE Below(_, _, _)
Below(db, S, n) == IF n = 0 THEN S ELSE Below(db, S \cup ChildDirs(db, S), n - 1)
DescendantsOrSelf(db, A) == Below(db, {A}, Cardinality(db.kb_dirs))

IsMountPoint(db, id) == id \in DOMAIN db.mount_points

\* parent p holds a directory (a note) named n that is not item x
HoldsOtherDir(db, p, n, x) ==
    \E r \in db.kb_dir_children : r.parent_id = p /\ r.child_name = n /\ r.child_id # x
HoldsOtherNote(db, p, n, x) ==
    \E r \in db.kb_note_children : r.parent_id = p /\ r.child_name = n /\ r.child_id # x

DirNamed(db, x, n) == \E r \in db.kb_dir_children : r.child_id = x /\ r.child_name = n
NoteNamed(db, x, n) == \E r \in db.kb_note_children : r.child_id = x /\ r.child_name = n
DirParent(db, x, p) == \E r \in db.kb_dir_children : r.child_id = x /\ r.parent_id = p
NoteParent(db, x, p) == \E r \in db.kb_note_children : r.child_id = x /\ r.parent_id = p

Refused(res) == last'.res = res /\ context' = context

-----------------------------------------------------------------------------
\* C4 as stated: for all directories A and B with B = A or B a descendant of A,
\* move_directory(A, B) fails with WouldCreateLoop and leaves the tree unchanged.
C4_AsStated ==
    [][\A A \in context.kb_dirs : \A B \in DescendantsOrSelf(context, A) :
          MoveDirectory(InDb(A), InDb(B)) => Refused(WouldCreateLoop)]_vars

\* C4 amended: the same for every directory A that is neither the root nor a mount
\* point; for the root and for mount points the move is refused too (CannotMoveRoot,
\* OperationNotSupported) and the tree is unchanged as well.
C4_LoopRefused ==
    [][\A A \in context.kb_dirs : \A B \in DescendantsOrSelf(context, A) :
          MoveDirectory(InDb(A), InDb(B)) =>
              /\ context' = context
              /\ last'.res = IF A = ROOT_DIR THEN CannotMoveRoot
                             ELSE IF IsMountPoint(context, A) THEN OperationNotSupported
                             ELSE WouldCreateLoop]_vars

\* a move was refused as a loop in a tree where an ordinary directory has a child
C4_Witness ==
    /\ last.op = "move_directory"
    /\ last.res = WouldCreateLoop
    /\ \E r \in context.kb_dir_children :
           r.parent_id # ROOT_DIR /\ ~IsMountPoint(context, r.parent_id)

-----------------------------------------------------------------------------
-----------------------------------------------------------------------------
\* C6: rename_directory(root, _), move_directory(root, d) for every destination d and
\* delete_directory(root) fail with CannotRenameRoot, CannotMoveRoot and
\* CannotDeleteRoot, and never change storage.
C6_RootProtected ==
    [][/\ \A n \in Names : RenameDirectory(Root, n) => Refused(CannotRenameRoot)
       /\ \A d \in DirInputs : MoveDirectory(Root, InDb(d)) => Refused(CannotMoveRoot)
       /\ DeleteDirectory(Root) => Refused(CannotDeleteRoot)]_vars

\* the root's deletion was refused while the tree held user directories
C6_Witness ==
    /\ last.op = "delete_directory"
    /\ last.res = CannotDeleteRoot
    /\ Cardinality(context.kb_dirs) > 2

-----------------------------------------------------------------------------
\* the name conflicts C7 speaks of, and what the operation must then do
C7_Conflicts(allowed(_, _, _)) ==
    /\ last'.op = "create_directory" =>
           \A p \in DirInputs, n \in Names :
               (HoldsOtherDir(context, p, n, MaxItems + 2) /\ CreateDirectory(InDb(p), n))
                   => Refused(TargetNameAlreadyExists(n))
    /\ last'.op = "create_note" =>
           \A p \in DirInputs, n \in Names, c \in Contents :
               (HoldsOtherNote(context, p, n, MaxItems + 1) /\ CreateNote(InDb(p), n, c))
                   => Refused(TargetNameAlreadyExists(n))
    /\ last'.op = "rename_directory" =>
           \A x \in context.kb_dirs, p \in context.kb_dirs, n \in Names :
               (DirParent(context, x, p) /\ HoldsOtherDir(context, p, n, x)
                    /\ RenameDirectory(InDb(x), n))
                   => allowed(x, FALSE, TargetNameAlreadyExists(n))
    /\ last'.op = "move_directory" =>
           \A x \in context.kb_dirs, p \in context.kb_dirs, n \in Names :
               (DirNamed(context, x, n) /\ HoldsOtherDir(context, p, n, x)
                    /\ MoveDirectory(InDb(x), InDb(p)))
                   => allowed(x, p \in DescendantsOrSelf(context, x),
                              TargetNameAlreadyExists(n))
    /\ last'.op = "rename_note" =>
           \A x \in NoteIdsOf(context), p \in context.kb_dirs, n \in Names :
               (NoteParent(context, x, p) /\ HoldsOtherNote(context, p, n, x)
                    /\ RenameNote(InDb(x), n))
                   => Refused(TargetNameAlreadyExists(n))
    /\ last'.op = "move_note" =>
           \A x \in NoteIdsOf(context), p \in context.kb_dirs, n \in Names :
               (NoteNamed(context, x, n) /\ HoldsOtherNote(context, p, n, x)
                    /\ MoveNote(InDb(x), InDb(p)))
                   => Refused(TargetNameAlreadyExists(n))

C7_Always(x, intoOwnSubtree, res) == Refused(res)

\* a mount point is refused as such; a move into the directory's own subtree as a loop
C7_UnlessMountOrLoop(x, intoOwnSubtree, res) ==
    Refused(IF IsMountPoint(context, x) THEN OperationNotSupported
            ELSE IF intoOwnSubtree THEN WouldCreateLoop
            ELSE res)

\* C7 as stated: create with name n, rename to n, or the move of an item named n, into
\* a parent that holds a different same-kind sibling named n, fails with
\* TargetNameAlreadyExists(n) and changes nothing.
C7_AsStated == [][C7_Conflicts(C7_Always)]_vars

\* C7 amended: the same, except that renaming or moving a directory registered as a
\* mount point fails with OperationNotSupported, and moving a directory into its own
\* subtree fails with WouldCreateLoop; these refusals change nothing either.
C7_NameConflict == [][C7_Conflicts(C7_UnlessMountOrLoop)]_vars

\* a directory move was refused because of a name held by a sibling at the destination
C7_Witness ==
    /\ last.op = "move_directory"
    /\ last.res.tag = "TargetNameAlreadyExists"

-----------------------------------------------------------------------------
\* C8: CommandSender::move_directory and move_note with an item and a destination of
\* different providers return CrossProviderMove, call no provider and leave storage
\* unchanged, whether or not the provider ids are registered.
C8_CrossProviderMove ==
    [][/\ last'.op = "move_directory" =>
              \A x \in MoveDirs : \A d \in {y \in MoveDirs : y.provider # x.provider} :
                  MoveDirectory(x, d) => (Refused(CrossProviderMove) /\ last'.calls = <<>>)
       /\ last'.op = "move_note" =>
              \A x \in MoveNotes : \A d \in {y \in MoveDirs : y.provider # x.provider} :
                  MoveNote(x, d) => (Refused(CrossProviderMove) /\ last'.calls = <<>>)]_vars

\* a directory move across providers was refused while the tree held user items
C8_Witness ==
    /\ last.op = "move_directory"
    /\ last.res = CrossProviderMove
    /\ context # InitContext

-----------------------------------------------------------------------------
(* The commands run one after another, as the reference for the concurrent runs *)

RECURSIVE SeqRun(_, _)
SeqRun(ctx, packages) ==
    IF packages = <<>> THEN [ctx |-> ctx, replies |-> <<>>]
    ELSE LET e == RunCommand(ctx, Head(packages).command)
             rest == SeqRun(e.ctx, Tail(packages))
         IN [ctx |-> rest.ctx,
             replies |-> <<[caller |-> Head(packages).caller, res |-> e.res]>> \o rest.replies]

\* the replies caller c is owed, in the order of its calls
RepliesOwed(c) ==
    LET mine == SelectSeq(SeqRun(InitContext, accepted).replies, LAMBDA r : r.caller = c)
    IN [k \in DOMAIN mine |-> mine[k].res]

IsPrefix(s, t) == Len(s) <= Len(t) /\ s = SubSeq(t, 1, Len(s))

RECURSIVE SumOver(_, _)
SumOver(f, S) ==
    IF S = {} THEN 0 ELSE LET c == CHOOSE x \in S : TRUE IN Len(f[c]) + SumOver(f, S \ {c})

\* replies the actor has sent so far: those taken by callers and those still in a channel
RepliesSent == SumOver(got, Callers) + SumOver(oneshot, Callers)

\* commands accepted into the queue and not yet replied to
Outstanding == Len(accepted) - RepliesSent

-----------------------------------------------------------------------------
\* C1: the actor executes commands in the order in which the queue accepted them,
\* and the storage state is the one obtained by running the executed commands one
\* after another in that order.
C1_SerialOrder ==
    /\ IsPrefix(executed, accepted)
    /\ context = SeqRun(InitContext, executed).ctx

\* commands of two different callers have been executed and changed the storage
C1_Witness ==
    /\ Len(executed) >= 2
    /\ executed[1].caller # executed[2].caller
    /\ context # InitContext
    /\ context # SeqRun(InitContext, <<executed[2], executed[1]>>).ctx

-----------------------------------------------------------------------------
\* C2: every call receives exactly one reply, and it is the result of the caller's own
\* command: a returned call has as many replies as commands sent and nothing is left
\* in its channel, a channel never holds two values, and the k-th reply of a caller is
\* the result of its k-th command.
C2_OwnReply ==
    \A c \in Callers :
        /\ Len(oneshot[c]) <= 1
        /\ pc[c] = "idle" => (Len(got[c]) = Len(sent[c]) /\ oneshot[c] = <<>>)
        /\ pc[c] # "idle" => Len(got[c]) + 1 = Len(sent[c])
        /\ IsPrefix(got[c] \o oneshot[c], RepliesOwed(c))

\* two callers have their replies, and the two replies differ
C2_Witness ==
    \E c, d \in Callers :
        /\ c # d
        /\ pc[c] = "idle" /\ pc[d] = "idle"
        /\ Len(got[c]) = 1 /\ Len(got[d]) = 1
        /\ got[c][1] # got[d][1]

-----------------------------------------------------------------------------
\* C3: at most one command is in the actor's hands at any moment, and the actor runs
\* a command only when every command run before it has been replied to.
C3_OneAtATime ==
    /\ Len(actor) <= 1
    /\ \A i \in DOMAIN actor :
           Len(executed) = RepliesSent + (IF actor[i].at = "reply" THEN 1 ELSE 0)
    /\ actor = <<>> => Len(executed) = RepliesSent

\* the actor is about to run a command after an earlier one, while another waits
C3_Witness ==
    /\ Len(actor) = 1
    /\ actor[1].at = "run"
    /\ Len(executed) >= 1
    /\ queue # <<>>

-----------------------------------------------------------------------------
\* C9 as stated: the number of commands accepted and not yet replied to never
\* exceeds one.
C9_AsStated == Outstanding <= 1

\* C9 amended: the buffer never holds more than one command, and the number of
\* commands accepted and not yet replied to never exceeds two: the one the actor has
\* taken and is executing, and the one accepted into the freed buffer meanwhile.
C9_AtMostTwo ==
    /\ Len(queue) <= 1
    /\ Outstanding <= 2

\* one command is being executed while a second one has been accepted
C9_Witness ==
    /\ Outstanding = 2
    /\ Len(actor) = 1
    /\ Len(queue) = 1

-----------------------------------------------------------------------------
\* C10: under fair scheduling of the actor and the callers, every call of
\* send_erased eventually returns.
C10_EveryCallReturns ==
    \A c \in Callers : (pc[c] # "idle") ~> (pc[c] = "idle")

\* a caller waits for the buffer while another command is in the buffer and a third
\* is being executed
C10_Witness ==
    /\ waiters # <<>>
    /\ queue # <<>>
    /\ actor # <<>>

-----------------------------------------------------------------------------
\* C11 as stated: once the sending end is closed, the actor finishes the command in
\* flight, delivers its reply, and then leaves its loop: a running actor on a closed
\* queue never ends in a panic, and an actor that has stopped has replied to every
\* command it executed.
C11_AsStated ==
    [][(QueueClosed /\ task = "running") =>
           /\ task' # "panicked"
           /\ task' = "exited" => Len(executed) = Len(accepted)]_vars

-----------------------------------------------------------------------------
\* C12 as stated: a command whose caller has gone away after the command was accepted
\* into the queue is still executed by the actor.
C12_AsStated ==
    \A k \in 1 .. MaxSends :
        (Len(accepted) >= k /\ pc[accepted[k].caller] = "gone") ~> (Len(executed) >= k)

-----------------------------------------------------------------------------
\* C13 as stated: the actor keeps running whatever awaiter disappears, and the calls
\* of the other callers do not fail.
C13_AsStated ==
    /\ task # "panicked"
    /\ \A c \in Callers : pc[c] # "panicked"

-----------------------------------------------------------------------------
\* the k-th command the actor ran returned an error
Failed(k) ==
    /\ Len(executed) >= k
    /\ SeqRun(InitContext, executed).replies[k].res.tag # "Ok"

\* C14: a command that returns an error, the unmapped storage error included, is
\* answered with that error, the actor stays running, and every command accepted
\* after a failed one is still executed and replied to.
C14_ErrorsAnswered ==
    /\ [](task = "running")
    /\ [](\A c \in Callers : IsPrefix(got[c] \o oneshot[c], RepliesOwed(c)))
    /\ \A k \in 1 .. MaxSends :
           (Len(accepted) >= k /\ \E j \in 1 .. (k - 1) : Failed(j)) ~> (RepliesSent >= k)

\* a caller was answered with the storage error, and a command run after that one has
\* been answered too
C14_Witness ==
    /\ \E c \in Callers : got[c] # <<>> /\ got[c][1] = SqliteError
    /\ Len(executed) >= 3
    /\ SeqRun(InitContext, executed).replies[2].res = SqliteError
    /\ RepliesSent >= 3

-----------------------------------------------------------------------------
\* what C15 asks of the directories D: a successful create_directory / create_note in d
\* adds to read_directory(d) exactly one child, of the created kind and name, and
\* changes nothing else in it; a successful delete of a child listed in d removes it
C15_Listing(D) ==
    \A d \in D, permissions \in Permissions :
        LET before == DbReadDirectory(context, permissions, d)
            after == DbReadDirectory(context', permissions, d)
            named(kind, n) == {c \in after.children : c.kind = kind /\ c.name = n}
        IN
        /\ \A n \in Names :
               (last'.op = "create_directory" /\ last'.res.tag = "Ok"
                    /\ CreateDirectory(InDb(d), n))
                   => /\ before.tag = "Ok" /\ after.tag = "Ok"
                      /\ \E new \in after.children \ before.children :
                             /\ new.kind = "directory" /\ new.name = n
                             /\ after.children = before.children \cup {new}
                             /\ named("directory", n) = {new}
        /\ \A n \in Names, c \in Contents :
               (last'.op = "create_note" /\ last'.res.tag = "Ok" /\ CreateNote(InDb(d), n, c))
                   => /\ before.tag = "Ok" /\ after.tag = "Ok"
                      /\ \E new \in after.children \ before.children :
                             /\ new.kind = "note" /\ new.name = n
                             /\ after.children = before.children \cup {new}
                             /\ named("note", n) = {new}
        /\ before.tag = "Ok" =>
               \A x \in before.children :
                   /\ (last'.op = "delete_directory" /\ last'.res = Ok /\ x.kind = "directory"
                           /\ DeleteDirectory(FullId(x.provider, x.id)))
                          => (after.tag = "Ok" /\ x \notin after.children)
                   /\ (last'.op = "delete_note" /\ last'.res = Ok /\ x.kind = "note"
                           /\ DeleteNote(FullId(x.provider, x.id)))
                          => (after.tag = "Ok" /\ x \notin after.children)

\* C15 as stated: for any directory d and name n, right after create_directory(d, n) or
\* create_note(d, _, n) succeeds, read_directory(d) holds exactly one new child of that
\* kind named n and otherwise the children it held before; once that child is deleted,
\* read_directory(d) no longer holds it.
C15_AsStated == [][C15_Listing(context.kb_dirs)]_vars

\* C15 amended: the same for every directory d that is not a mount point.
C15_ListingOffMount ==
    [][C15_Listing({d \in context.kb_dirs : ~IsMountPoint(context, d)})]_vars

\* a note has just been created in a directory that now lists it beside another child
C15_Witness ==
    /\ last.op = "create_note"
    /\ last.res.tag = "Ok"
    /\ \E d \in context.kb_dirs \ DOMAIN context.mount_points, permissions \in Permissions :
           LET children == DbReadDirectory(context, permissions, d).children IN
           /\ \E c \in children : c.kind = "note" /\ c.id = last.res.id[1]
           /\ Cardinality(children) >= 2

\* C16: read_directory on a directory registered as a mount point returns exactly the
\* listing of the mounted provider's root directory for the same permissions, and none
\* of the children the relational provider stores under that directory.
C16_MountListing ==
    \A d \in DOMAIN context.mount_points, permissions \in Permissions :
        LET listing == DbReadDirectory(context, permissions, d) IN
        /\ listing = ArchiveReadDirectory(context, permissions, ROOT_DIR_ID)
        /\ listing.tag = "Ok"
        /\ listing.children \cap LocalChildren(context, d) = {}
        /\ \A c \in listing.children : c.provider = context.mount_points[d]

\* the mount directory holds a child of its own and is read by a caller who sees a feed
C16_Witness ==
    \E d \in DOMAIN context.mount_points, permissions \in Permissions :
        /\ LocalChildren(context, d) # {}
        /\ DbReadDirectory(context, permissions, d).children # {}

\* C17: get_directory_parent on the archive provider's synthetic root returns what the
\* relational provider's get_directory_parent returns for the directory the archive is
\* mounted on; it is never None and never a directory of the archive provider.
C17_RootParent ==
    LET parent == ArchiveGetDirectoryParent(context, ROOT_DIR_ID) IN
    /\ parent = DbGetDirectoryParent(context, mounted_on(context).id)
    /\ parent.tag = "Ok"
    /\ parent.parent # None
    /\ parent.parent[1].provider # ARCHIVE_PROVIDER_ID

\* directories have been created beside and under the mount directory, and the parent
\* of the synthetic root is the relational provider's root
C17_Witness ==
    /\ LocalChildren(context, mounted_on(context).id) # {}
    /\ Cardinality(context.kb_dirs) > 2
    /\ ArchiveGetDirectoryParent(context, ROOT_DIR_ID)
           = OkParent(Some(FullId(ROOT_PROVIDER_ID, ROOT_DIR)))

\* ids a caller may present: the row ids of the model and one beyond them
AnyDirId == DirIds \cup {MaxItems + 2}
AnyNoteId == NoteIds \cup {MaxItems + 1}

\* C18: in the relational provider get_directory_parent, get_directory_name,
\* rename_directory, delete_directory and move_directory on a non-root directory id that
\* does not exist fail with NoSuchDirectory(id), and get_note_parent, get_note_name,
\* read_note, update_note, rename_note, delete_note and move_note on a note id that does
\* not exist fail with NoSuchNote(id); storage is unchanged in every such case.
C18_MissingIds ==
    /\ \A id \in AnyDirId \ (context.kb_dirs \cup {ROOT_DIR}) :
           LET refused == Outcome(context, NoSuchDirectory(id)) IN
           /\ DbGetDirectoryParent(context, id) = NoSuchDirectory(id)
           /\ DbGetDirectoryName(context, id) = refused
           /\ DbDeleteDirectory(context, id) = refused
           /\ \A n \in Names : DbRenameDirectory(context, id, n) = refused
           /\ \A dest \in AnyDirId : DbMoveDirectory(context, id, dest) = refused
    /\ \A id \in AnyNoteId \ NoteIdsOf(context) :
           LET refused == Outcome(context, NoSuchNote(id)) IN
           /\ DbGetNoteParent(context, id) = NoSuchNote(id)
           /\ DbGetNoteName(context, id) = refused
           /\ DbReadNote(context, id) = NoSuchNote(id)
           /\ DbDeleteNote(context, id) = refused
           /\ \A c \in Contents : DbUpdateNote(context, id, c) = refused
           /\ \A n \in Names : DbRenameNote(context, id, n) = refused
           /\ \A dest \in AnyDirId : DbMoveNote(context, id, dest) = refused

\* a rename has just been refused for a directory id that is not stored, in a state
\* where a directory has been deleted and a note is stored
C18_Witness ==
    /\ last.op = "rename_directory"
    /\ last.res.tag = "NoSuchDirectory"
    /\ \E id \in DirIds \ context.kb_dirs : id < NextRowId(context.kb_dirs)
    /\ context.kb_note_children # {}

\* C19 as stated: read_directory on a directory id the relational provider does not
\* recognise (not the root, not a mount point, no such directory stored) fails with
\* NoSuchDirectory(id) instead of returning a listing.
C19_AsStated ==
    \A id \in AnyDirId \ (context.kb_dirs \cup {ROOT_DIR} \cup DOMAIN context.mount_points),
       permissions \in Permissions :
        DbReadDirectory(context, permissions, id) = NoSuchDirectory(id)

\* the call that produced the result the caller holds
LastCall == last.calls[Len(last.calls)]

\* C20: in the archive provider, read_directory on a feed's subdirectory and read_note on
\* an existing entry of that feed fail with PermissionDenied whenever the caller's
\* permissions do not satisfy the feed's visibility predicate, also for an id taken from
\* a listing made with other permissions.
C20_FeedGuard ==
    /\ last.op = "read_directory" =>
           \A i \in DOMAIN ids_map :
               (LastCall.id = i /\ ~Allowed(ids_map[i], LastCall.permissions))
                   => last.res = PermissionDenied
    /\ last.op = "read_note" =>
           \A e \in context.kb_newsletters :
               (LastCall.id = e.id /\ ~Allowed(e.name, LastCall.permissions))
                   => last.res = PermissionDenied

\* a caller allowed to see the feed listed the archive root and then the feed, and an
\* entry taken from that listing has been refused to a caller who is not allowed
C20_Witness ==
    /\ last.op = "read_note"
    /\ Len(last.calls) = 3
    /\ Allowed(ids_map[last.calls[2].id], last.calls[2].permissions)
    /\ ~Allowed(ids_map[last.calls[2].id], LastCall.permissions)
    /\ \E e \in context.kb_newsletters : e.id = LastCall.id
    /\ last.res = PermissionDenied

\* a feed's subdirectory taken from a listing of the root has been refused
C20_WitnessDirectory ==
    /\ last.op = "read_directory"
    /\ Len(last.calls) = 2
    /\ last.res = PermissionDenied

\* the subdirectories a listing holds for feed k
FeedDirs(listing, k) ==
    {c \in listing.children : c.kind = "directory" /\ c.provider = ARCHIVE_PROVIDER_ID /\ c.id = k}

\* C21: read_directory on the archive provider's synthetic root lists exactly one
\* subdirectory for each registered feed whose visibility predicate the caller's
\* permissions satisfy, and none for a feed whose predicate they do not satisfy.
C21_RootListing ==
    /\ \A permissions \in Permissions :
           LET listing == ArchiveReadDirectory(context, permissions, ROOT_DIR_ID) IN
           /\ listing.tag = "Ok"
           /\ \A k \in DOMAIN ids_map :
                  Cardinality(FeedDirs(listing, k))
                      = IF Allowed(ids_map[k], permissions) THEN 1 ELSE 0
           /\ \A c \in listing.children : \E k \in DOMAIN ids_map : c \in FeedDirs(listing, k)
    /\ (last.op = "read_directory" /\ LastCall.id = ROOT_DIR_ID)
           => last.res = ArchiveReadDirectory(context, LastCall.permissions, ROOT_DIR_ID)

\* with entries stored, the root has been listed for a caller who may see the feed
C21_Witness ==
    /\ last.op = "read_directory"
    /\ LastCall.id = ROOT_DIR_ID
    /\ Allowed(ids_map[0], LastCall.permissions)
    /\ Cardinality(last.res.children) = 1
    /\ context.kb_newsletters # {}

\* the root has been listed for a caller who may not see the feed
C21_WitnessHidden ==
    /\ last.op = "read_directory"
    /\ LastCall.id = ROOT_DIR_ID
    /\ ~Allowed(ids_map[0], LastCall.permissions)
    /\ last.res.children = {}

\* C22: every write operation of the archive provider fails with OperationNotSupported
\* for every argument and caller, and leaves the archive log and the feed table as
\* they were.
C22_WritesRefused ==
    [][\A method \in WriteMethods, permissions \in Permissions,
         id \in ArchiveDirInputs \cup EntryInputs :
           ArchiveWriteCall(method, permissions, id)
               => (last'.res = OperationNotSupported /\ context' = context)]_vars

\* delete_note has been refused for an entry the archive holds, asked by an admin
C22_Witness ==
    /\ last.op = "delete_note"
    /\ last.res = OperationNotSupported
    /\ LastCall.permissions.admin
    /\ \E e \in context.kb_newsletters : e.id = LastCall.id

\* C23: rename_directory, move_directory and delete_directory applied to a directory
\* registered as a mount point of the relational provider fail with
\* OperationNotSupported and change neither storage nor the mount table.
C23_MountProtected ==
    [][\A m \in DOMAIN context.mount_points :
          /\ \A n \in Names : RenameDirectory(InDb(m), n) => Refused(OperationNotSupported)
          /\ \A d \in DirInputs :
                 MoveDirectory(InDb(m), InDb(d)) => Refused(OperationNotSupported)
          /\ DeleteDirectory(InDb(m)) => Refused(OperationNotSupported)]_vars

\* the deletion of the mount directory was refused by the relational provider while
\* the directory held a child of its own
C23_Witness ==
    /\ last.op = "delete_directory"
    /\ last.res = OperationNotSupported
    /\ last.calls = <<Call(ROOT_PROVIDER_ID, "delete_directory")>>
    /\ \E m \in DOMAIN context.mount_points : LocalChildren(context, m) # {}

\* item x of the given kind is a child in some listing of the relational provider
Listed(db, kind, x) ==
    \E p \in AnyDirId, permissions \in Permissions :
        \E c \in DbReadDirectory(db, permissions, p).children :
            c.kind = kind /\ c.provider = ROOT_PROVIDER_ID /\ c.id = x

Unregistered == ProviderIds \ Providers

\* the reply C25 asks for: NoSuchProvider, no provider called, the context as it was
NoProvider(e, p) == e = Effect(context, NoSuchProvider(p), <<>>)

\* C25: every CommandSender operation that addresses a directory or note through a
\* provider id not registered in the tree fails with NoSuchProvider(that id), calls no
\* provider and changes no storage (a move: when the item and the destination carry
\* the same unregistered provider id). Stated of every operation a caller can issue
\* next, in every state of the tree.
C25_NoSuchProvider ==
    last = NoLast =>
    \A p \in Unregistered :
        /\ \A id \in AnyDirId \cup {ROOT_DIR_ID} :
               LET d == FullId(p, id) IN
               /\ \A permissions \in Permissions :
                      /\ NoProvider(CmdDirectoryParent(context, permissions, d), p)
                      /\ NoProvider(CmdDirectoryName(context, permissions, d), p)
                      /\ NoProvider(CmdReadDirectory(context, permissions, d), p)
               /\ NoProvider(CmdDeleteDirectory(context, d), p)
               /\ \A n \in Names :
                      /\ NoProvider(CmdCreateDirectory(context, d, n), p)
                      /\ NoProvider(CmdRenameDirectory(context, d, n), p)
                      /\ \A c \in Contents : NoProvider(CmdCreateNote(context, d, n, c), p)
               /\ \A dest \in AnyDirId :
                      NoProvider(CmdMoveDirectory(context, d, FullId(p, dest)), p)
        /\ \A id \in AnyNoteId :
               LET x == FullId(p, id) IN
               /\ \A permissions \in Permissions :
                      /\ NoProvider(CmdNoteParent(context, permissions, x), p)
                      /\ NoProvider(CmdNoteName(context, permissions, x), p)
                      /\ NoProvider(CmdReadNote(context, permissions, x), p)
               /\ NoProvider(CmdDeleteNote(context, x), p)
               /\ \A c \in Contents : NoProvider(CmdUpdateNote(context, x, c), p)
               /\ \A n \in Names : NoProvider(CmdRenameNote(context, x, n), p)
               /\ \A dest \in AnyDirId :
                      NoProvider(CmdMoveNote(context, x, FullId(p, dest)), p)

\* a move inside a provider that is not registered has just been refused, the tree
\* holding user items
C25_Witness ==
    /\ last.op = "move_directory"
    /\ \E p \in Unregistered : last.res = NoSuchProvider(p)
    /\ last.calls = <<>>
    /\ Cardinality(context.kb_dirs) > 2

\* the directories under the root that bear the archive's name
ArchiveDirs(db) ==
    {r.child_id : r \in {x \in db.kb_dir_children :
                             x.parent_id = ROOT_DIR /\ x.child_name = ARCHIVE_DIR}}

\* C26 as stated: on any storage state earlier runs can leave (the archive directory
\* already there, whatever notes users created under the root), Tree::new completes,
\* leaves exactly one directory with the archive's name under the root and registers
\* that directory as the mount point of the archive provider.
C26_AsStated ==
    last.op = "new" =>
        /\ last.res = Ok
        /\ Cardinality(ArchiveDirs(context)) = 1
        /\ DOMAIN context.mount_points = ArchiveDirs(context)
        /\ \A d \in ArchiveDirs(context) : context.mount_points[d] = ARCHIVE_PROVIDER_ID

\* what holds of a construction that completes: one archive directory, mounted
C26_WhenCompleted ==
    (last.op = "new" /\ last.res = Ok) =>
        /\ Cardinality(ArchiveDirs(context)) = 1
        /\ DOMAIN context.mount_points = ArchiveDirs(context)
        /\ \A d \in ArchiveDirs(context) : context.mount_points[d] = ARCHIVE_PROVIDER_ID

\* C27: for every FullDirectoryId and FullNoteId x (any provider id, any local id,
\* 0 and the largest value included), parsing the "provider:local" text made by
\* to_string(x) gives x again, the two components neither swapped nor truncated.
C27_RoundTrip ==
    last.op = "parse" => last.res = OkId(last.calls[2])

\* the text of an id with the largest local id and another provider id has been parsed
\* back to that id
C27_Witness ==
    /\ last.op = "parse"
    /\ last.calls[2] = FullId(1, IdMax)
    /\ last.res = OkId(FullId(1, IdMax))

\* no two rows of an adjacency table give the same name under the same parent
SiblingsDistinct(rows) ==
    \A r1, r2 \in rows :
        (r1.parent_id = r2.parent_id /\ r1.child_name = r2.child_name) => r1 = r2

\* C28: sibling names are unique per kind. In every reachable state no two directories
\* with the same parent share a name and no two notes with the same parent share a
\* name, while creating a directory named n under a parent that holds only a note
\* named n, and creating a note named n where only a directory named n exists, succeeds.
C28_PerKindNames ==
    /\ [](SiblingsDistinct(context.kb_dir_children)
            /\ SiblingsDistinct(context.kb_note_children))
    /\ [][\A p \in context.kb_dirs, n \in Names :
              /\ (CreateDirectory(InDb(p), n)
                      /\ HoldsOtherNote(context, p, n, MaxItems + 1)
                      /\ ~HoldsOtherDir(context, p, n, MaxItems + 2))
                     => last'.res.tag = "Ok"
              /\ \A c \in Contents :
                     (CreateNote(InDb(p), n, c)
                         /\ HoldsOtherDir(context, p, n, MaxItems + 2)
                         /\ ~HoldsOtherNote(context, p, n, MaxItems + 1))
                        => last'.res.tag = "Ok"]_vars

\* a directory holds a directory and a note of the same name, the note made last
C28_Witness ==
    /\ last.op = "create_note"
    /\ last.res.tag = "Ok"
    /\ \E d \in context.kb_dir_children, x \in context.kb_note_children :
           /\ d.parent_id = x.parent_id
           /\ d.child_name = x.child_name
           /\ x.child_id = last.res.id[1]

-----------------------------------------------------------------------------
(* The move scenario of tests/db_provider.rs (moves_renames_ok), reduced to directories *)

\* the ids the three directories get when created in the order foo, bar, baz
FooId == NextRowId(InitContext.kb_dirs)
BarId == FooId + 1
BazId == BarId + 1

CreateFoo == Command("create_directory", NoFullId, InDb(ROOT_DIR), "foo", "")
CreateBar == Command("create_directory", NoFullId, InDb(ROOT_DIR), "bar", "")
CreateBaz == Command("create_directory", NoFullId, InDb(BarId), "baz", "")
MoveBazToRoot == Command("move_directory", InDb(BazId), InDb(ROOT_DIR), "", "")
MoveBazToBar == Command("move_directory", InDb(BazId), InDb(BarId), "", "")
MoveBarToBaz == Command("move_directory", InDb(BarId), InDb(BazId), "", "")

\* the commands of the scenario, which a behaviour runs in any order
ScenarioCommands ==
    {CreateFoo, CreateBar, CreateBaz, MoveBazToRoot, MoveBazToBar, MoveBarToBaz}

\* one command of the scenario run against the context; `executed` keeps the commands
\* run so far
ScenarioRun(cmd) ==
    /\ Len(executed) < Cardinality(ScenarioCommands)
    /\ LET e == RunCommand(context, cmd) IN
           /\ context' = e.ctx
           /\ last' = [op |-> cmd.op, res |-> e.res, calls |-> e.calls]
    /\ executed' = Append(executed, cmd)
    /\ UNCHANGED <<dialog, pc, pending, waiters, queue, oneshot, actor, task, accepted, sent, got>>

NextScenario == \E cmd \in ScenarioCommands : ScenarioRun(cmd)

SpecScenario == Init /\ [][NextScenario]_vars

\* foo and bar made under the root, baz under bar, baz moved to the root
MovedOut == <<CreateFoo, CreateBar, CreateBaz, MoveBazToRoot>>

\* the names of the directories of the relational provider that read_directory(id) lists
DirNames(id) ==
    {c.name : c \in {x \in DbReadDirectory(context, [receive_feedback |-> TRUE, admin |-> TRUE],
                                         id).children : x.kind = "directory"}}

\* C29 as stated: after the four steps the root lists foo and baz, bar is empty, and
\* move(bar, baz) fails with WouldCreateLoop.
C29_AsStated ==
    /\ executed = MovedOut =>
           /\ last.res = Ok
           /\ {"foo", "baz"} \subseteq DirNames(ROOT_DIR)
           /\ DbReadDirectory(context, [receive_feedback |-> TRUE, admin |-> TRUE],
                              BarId).children = {}
    /\ executed = Append(MovedOut, MoveBarToBaz) => last.res = WouldCreateLoop

\* C29: after create_directory(root, foo), create_directory(root, bar),
\* create_directory(bar, baz) and move(baz, root), the move has succeeded, the root lists
\* foo, bar and baz beside the archive directory, and bar is empty; move(bar, baz) then
\* succeeds, baz being no longer below bar, and leaves bar listed under baz. Once baz has
\* been moved back under bar, move(bar, baz) fails with WouldCreateLoop.
C29_Scenario ==
    /\ executed = MovedOut =>
           /\ last.res = Ok
           /\ DirNames(ROOT_DIR) = {ARCHIVE_DIR, "foo", "bar", "baz"}
           /\ DbReadDirectory(context, [receive_feedback |-> TRUE, admin |-> TRUE],
                              BarId).children = {}
    /\ executed = Append(MovedOut, MoveBarToBaz) =>
           /\ last.res = Ok
           /\ DirNames(BazId) = {"bar"}
           /\ DirNames(ROOT_DIR) = {ARCHIVE_DIR, "foo", "baz"}
    /\ executed = MovedOut \o <<MoveBazToBar, MoveBarToBaz>> =>
           /\ last.res = WouldCreateLoop
           /\ DirNames(BarId) = {"baz"}

\* bar has been moved under baz after baz was moved to the root
C29_Witness ==
    /\ executed = Append(MovedOut, MoveBarToBaz)
    /\ last.op = "move_directory"
    /\ last.res = Ok

\* the move of bar under baz was refused after baz went back under bar
C29_WitnessLoop ==
    /\ executed = MovedOut \o <<MoveBazToBar, MoveBarToBaz>>
    /\ last.res = WouldCreateLoop

-----------------------------------------------------------------------------
\* the children of the given kind and id that read_directory(d) lists after the step
ListedIn(d, kind, x, permissions) ==
    {c \in DbReadDirectory(context', permissions, d).children :
         c.kind = kind /\ c.provider = ROOT_PROVIDER_ID /\ c.id = x}

\* what C30 asks of the destinations D: a successful move_directory(x, d) or
\* move_note(x, d) leaves x listed once in d, under its name, and not in the parent it
\* had (when `same` is FALSE this is asked only of a parent other than d); a moved
\* directory keeps its descendants, and every other row, name and content is as before
C30_Frame(D, same) ==
    /\ \A x \in DirInputs, d \in D :
           (last'.op = "move_directory" /\ last'.res = Ok
                /\ MoveDirectory(InDb(x), InDb(d))) =>
               LET row == CHOOSE r \in DirRows(context, x) : TRUE IN
               /\ DirRows(context, x) # {}
               /\ \A permissions \in Permissions :
                      /\ \E c \in ListedIn(d, "directory", x, permissions) :
                             /\ ListedIn(d, "directory", x, permissions) = {c}
                             /\ c.name = row.child_name
                      /\ (same \/ row.parent_id # d) =>
                             ListedIn(row.parent_id, "directory", x, permissions) = {}
               /\ DbGetDirectoryName(context', x).res = DbGetDirectoryName(context, x).res
               /\ DbGetDirectoryParent(context', x) = OkParent(Some(InDb(d)))
               /\ DescendantsOrSelf(context', x) = DescendantsOrSelf(context, x)
               /\ context'.kb_dir_children \ DirRows(context', x)
                      = context.kb_dir_children \ {row}
               /\ context' = [context EXCEPT !.kb_dir_children = context'.kb_dir_children]
    /\ \A x \in NoteInputs, d \in D :
           (last'.op = "move_note" /\ last'.res = Ok
                /\ MoveNote(InDb(x), InDb(d))) =>
               LET row == CHOOSE r \in NoteRows(context, x) : TRUE IN
               /\ NoteRows(context, x) # {}
               /\ \A permissions \in Permissions :
                      /\ \E c \in ListedIn(d, "note", x, permissions) :
                             /\ ListedIn(d, "note", x, permissions) = {c}
                             /\ c.name = row.child_name
                      /\ (same \/ row.parent_id # d) =>
                             ListedIn(row.parent_id, "note", x, permissions) = {}
               /\ DbGetNoteName(context', x).res = DbGetNoteName(context, x).res
               /\ DbGetNoteParent(context', x) = OkParent(Some(InDb(d)))
               /\ DbReadNote(context', x) = DbReadNote(context, x)
               /\ context'.kb_note_children \ NoteRows(context', x)
                      = context.kb_note_children \ {row}
               /\ context' = [context EXCEPT !.kb_note_children = context'.kb_note_children]

\* C30 as stated: a successful move_directory(x, d) or move_note(x, d) changes only x's
\* parent: x is then listed exactly once in d and not in its former parent, keeps its id
\* and name, a moved directory keeps its subtree, and nothing else changes.
C30_AsStated == [][C30_Frame(DirInputs, TRUE)]_vars

\* C30 amended: the same for every destination d that is not a mount point, the former
\* parent no longer listing x when it is a directory other than d.
C30_MoveFrame ==
    [][C30_Frame({d \in DirInputs : ~IsMountPoint(context, d)}, FALSE)]_vars

\* a directory that holds a child has a parent that is not a mount point, a directory
\* having just been moved
C30_Witness ==
    /\ last.op = "move_directory"
    /\ last.res = Ok
    /\ \E r \in context.kb_dir_children :
           /\ ~IsMountPoint(context, r.parent_id)
           /\ LocalChildren(context, r.child_id) # {}

\* a note has just been moved and lies in a directory other than the root
C30_WitnessNote ==
    /\ last.op = "move_note"
    /\ last.res = Ok
    /\ \E r \in context.kb_note_children :
           r.parent_id # ROOT_DIR /\ ~IsMountPoint(context, r.parent_id)

-----------------------------------------------------------------------------
\* C31: a create_directory or create_note that fails leaves the tables as they were. The
\* failure is NoSuchDirectory(target) exactly when the target has no kb_dirs row and
\* TargetNameAlreadyExists(name) otherwise; the row inserted first is not retained, so
\* the id it had is unknown to every lookup and appears in no listing.
C31_FailedCreate ==
    [][\A d \in DirInputs, n \in Names :
          /\ (last'.op = "create_directory" /\ last'.res.tag # "Ok"
                  /\ CreateDirectory(InDb(d), n)) =>
                 LET id == NextRowId(context.kb_dirs) IN
                 /\ context' = context
                 /\ last'.res = IF d \in context.kb_dirs THEN TargetNameAlreadyExists(n)
                                 ELSE NoSuchDirectory(d)
                 /\ id \notin context'.kb_dirs
                 /\ DbGetDirectoryName(context', id).res = NoSuchDirectory(id)
                 /\ DbGetDirectoryParent(context', id) = NoSuchDirectory(id)
                 /\ ~Listed(context', "directory", id)
          /\ \A c \in Contents :
                 (last'.op = "create_note" /\ last'.res.tag # "Ok"
                     /\ CreateNote(InDb(d), n, c)) =>
                    LET id == NextRowId(NoteIdsOf(context)) IN
                    /\ context' = context
                    /\ last'.res = IF d \in context.kb_dirs THEN TargetNameAlreadyExists(n)
                                    ELSE NoSuchDirectory(d)
                    /\ DbReadNote(context', id) = NoSuchNote(id)
                    /\ DbGetNoteName(context', id).res = NoSuchNote(id)
                    /\ DbGetNoteParent(context', id) = NoSuchNote(id)
                    /\ ~Listed(context', "note", id)]_vars

\* a create_note was refused for its name while another note is stored
C31_Witness ==
    /\ last.op = "create_note"
    /\ last.res.tag = "TargetNameAlreadyExists"
    /\ context.kb_notes # {}

\* a create_directory was refused for its target
C31_WitnessTarget ==
    /\ last.op = "create_directory"
    /\ last.res.tag = "NoSuchDirectory"

-----------------------------------------------------------------------------
\* C32 as stated: move_directory(x, d) and move_note(x, d) with an existing item x (a
\* directory that is neither the root nor a mount point, or a note) and a destination d
\* that has no kb_dirs row fail with NoSuchDirectory(d) and leave x where it was.
C32_AsStated ==
    [][\A d \in DirInputs \ context.kb_dirs :
          /\ \A x \in context.kb_dirs \ ({ROOT_DIR} \cup DOMAIN context.mount_points) :
                 (last'.op = "move_directory" /\ MoveDirectory(InDb(x), InDb(d))) =>
                     /\ last'.res = NoSuchDirectory(d)
                     /\ context' = context
          /\ \A x \in NoteIdsOf(context) :
                 (last'.op = "move_note" /\ MoveNote(InDb(x), InDb(d))) =>
                     /\ last'.res = NoSuchDirectory(d)
                     /\ context' = context]_vars

-----------------------------------------------------------------------------
\* C33 as stated: in the archive provider get_directory_parent and get_directory_name on
\* a directory id that is neither the synthetic root nor a feed index fail with
\* NoSuchDirectory, and read_note, get_note_name and get_note_parent on an entry id that
\* is not in the log fail with NoSuchNote.
C33_AsStated ==
    /\ \A id \in ArchiveDirInputs \ ({ROOT_DIR_ID} \cup DOMAIN ids_map) :
           /\ ArchiveGetDirectoryParent(context, id) = NoSuchDirectory(id)
           /\ ArchiveGetDirectoryName(context, id) = NoSuchDirectory(id)
    /\ \A id \in EntryInputs \ {e.id : e \in context.kb_newsletters} :
           /\ \A permissions \in Permissions :
                  ArchiveReadNote(context, permissions, id) = NoSuchNote(id)
           /\ ArchiveGetNoteName(context, id) = NoSuchNote(id)
           /\ ArchiveGetNoteParent(context, id) = NoSuchNote(id)

-----------------------------------------------------------------------------
(* Notes as values: text and formatting entities (kb.rs, message.rs) *)

\* Note { text: FormattedText { raw_text, entities } }
Note(raw_text, entities) == [text |-> [raw_text |-> raw_text, entities |-> entities]]

\* the notes a caller writes: without entities, and with one entity
NoteValues == {Note(t, e) : t \in Texts, e \in {None, Some(<<"bold">>)}}

\* DbProvider::read_note: the Note built from the content column
ReadNoteValue(db, id) ==
    LET row == DbReadNote(db, id) IN
    IF row.tag = "Ok" THEN OkNote(Note(row.content, None)) ELSE row

\* DirectoryRef::create_note: the content column is bound to note.text.raw_text
NoteCreate(destination, name, note) ==
    Apply("create_note", CmdCreateNote(context, destination, name, note.text.raw_text))

\* NoteRef::update: the content column is bound to note.text.raw_text
NoteUpdate(id, note) ==
    Apply("update_note", CmdUpdateNote(context, id, note.text.raw_text))

\* NoteRef::read
NoteRead(id) ==
    /\ last = NoLast
    /\ last' = [op |-> "read_note", res |-> ReadNoteValue(context, id.id), calls |-> <<>>]
    /\ UNCHANGED <<dialog, context, actorVars>>

NextNotes ==
    \/ Return
    \/ \E d \in DbDirs, n \in Names, note \in NoteValues : NoteCreate(d, n, note)
    \/ \E x \in DbNotes, note \in NoteValues : NoteUpdate(x, note)
    \/ \E x \in DbNotes : NoteRead(x)

SpecNotes == Init /\ [][NextNotes]_vars

\* C34 as stated: read_note returns the Note most recently written to the note by
\* create_note or update_note, for every Note value, text and entities alike, and
\* reading does not change storage.
C34_AsStated ==
    [][/\ \A note \in NoteValues :
           /\ \A d \in DbDirs, n \in Names :
                  (last'.op = "create_note" /\ last'.res.tag = "Ok"
                      /\ NoteCreate(d, n, note)) =>
                     ReadNoteValue(context', last'.res.id[1]) = OkNote(note)
           /\ \A x \in DbNotes :
                  (last'.op = "update_note" /\ last'.res.tag = "Ok"
                      /\ NoteUpdate(x, note)) =>
                     ReadNoteValue(context', x.id) = OkNote(note)
       /\ \A x \in DbNotes : NoteRead(x) => context' = context]_vars

\* the part of C34 that holds: the text of the note read is the text written last
C34_TextOnly ==
    [][\A note \in NoteValues :
           /\ \A d \in DbDirs, n \in Names :
                  (last'.op = "create_note" /\ last'.res.tag = "Ok"
                      /\ NoteCreate(d, n, note)) =>
                     ReadNoteValue(context', last'.res.id[1]).content.text.raw_text
                         = note.text.raw_text
           /\ \A x \in DbNotes :
                  (last'.op = "update_note" /\ last'.res.tag = "Ok"
                      /\ NoteUpdate(x, note)) =>
                     ReadNoteValue(context', x.id).content.text.raw_text
                         = note.text.raw_text]_vars

-----------------------------------------------------------------------------
(* The whole tree: directories and notes of the relational provider, entries of the
   archive *)

NextTree ==
    \/ Return
    \/ \E d \in DbDirs, n \in Names : CreateDirectory(d, n)
    \/ \E d \in DbDirs, n \in Names, c \in Contents : CreateNote(d, n, c)
    \/ \E d \in DbDirs, t \in DbDirs : MoveDirectory(d, t)
    \/ \E i \in DOMAIN ids_map, t \in Texts : SinkStore(ids_map[i], t)

SpecTree == Init /\ [][NextTree]_vars

\* the address of a listed child
AddressOf(c) == FullId(c.provider, c.id)

\* the directories listed by the directories S, for a caller with the given permissions
ListedDirs(S, permissions) ==
    UNION {LET listing == CmdReadDirectory(context, permissions, d).res IN
           IF listing.tag = "Ok"
           THEN {AddressOf(c) : c \in {x \in listing.children : x.kind = "directory"}}
           ELSE {} : d \in S}

\* the directories a caller reaches from the global root by listing
RECURSIVE ReachedByListing(_, _, _)
ReachedByListing(S, permissions, fuel) ==
    IF fuel = 0 THEN S
    ELSE ReachedByListing(S \cup ListedDirs(S, permissions), permissions, fuel - 1)

Reached(permissions) ==
    ReachedByListing({FullId(ROOT_PROVIDER_ID, ROOT_DIR)}, permissions,
                     Cardinality(context.kb_dirs) + Cardinality(DOMAIN ids_map))

\* the address is a mount-point directory of the relational provider
MountAddress(d) == d.provider = ROOT_PROVIDER_ID /\ IsMountPoint(context, d.id)

\* every child that read_directory(d) lists has the parent `parent`
ChildrenHaveParent(d, parent, permissions) ==
    LET listing == CmdReadDirectory(context, permissions, d).res IN
    listing.tag = "Ok" =>
        \A c \in listing.children :
            IF c.kind = "directory"
            THEN CmdDirectoryParent(context, permissions, AddressOf(c)).res
                     = OkParent(Some(parent))
            ELSE CmdNoteParent(context, permissions, AddressOf(c)).res
                     = OkParent(Some(parent))

\* C35 as stated: for every directory d reached from the global root by listing, every
\* child directory and child note that read_directory(d) lists has d as its parent, also
\* when d is a mount-point directory.
C35_AsStated ==
    \A permissions \in Permissions :
        \A d \in Reached(permissions) : ChildrenHaveParent(d, d, permissions)

\* C35 amended: the same for every reached directory that is not a mount point; the
\* children listed by a mount-point directory d have the mounted provider's synthetic
\* root as their parent, a directory whose listing is that of d and whose parent is the
\* parent of d. (Every context is met between two calls, so it is read there.)
C35_ParentsOfListed ==
    last = NoLast =>
    \A permissions \in Permissions :
        \A d \in Reached(permissions) :
            IF ~MountAddress(d) THEN ChildrenHaveParent(d, d, permissions)
            ELSE LET root == FullId(context.mount_points[d.id], ROOT_DIR_ID) IN
                 /\ ChildrenHaveParent(d, root, permissions)
                 /\ CmdReadDirectory(context, permissions, root).res
                        = CmdReadDirectory(context, permissions, d).res
                 /\ CmdDirectoryParent(context, permissions, root).res
                        = CmdDirectoryParent(context, permissions, d).res

\* a caller reaches a feed's directory that lists an entry, and a directory of the
\* relational provider below the root that lists a child
C35_Witness ==
    \E permissions \in Permissions :
        /\ \E d \in Reached(permissions) :
               /\ d.provider = ARCHIVE_PROVIDER_ID
               /\ CmdReadDirectory(context, permissions, d).res.children # {}
        /\ \E d \in Reached(permissions) :
               /\ d.provider = ROOT_PROVIDER_ID
               /\ d.id # ROOT_DIR
               /\ ~IsMountPoint(context, d.id)
               /\ CmdReadDirectory(context, permissions, d).res.children # {}

-----------------------------------------------------------------------------
-----------------------------------------------------------------------------
(* The dialog layer (ui.rs): the callback queries and messages of one user, each
   handled to its end before the next; the prompts a handler sends and the reads
   behind them are left out *)

\* InvalidAction and MessageFormatError values, by name
UserError(tag) == Result(tag, None, None)

\* Context::uctx as the providers of this model see it
DialogUctx == [receive_feedback |-> FALSE, admin |-> FALSE]

\* what a handler leaves: the dialog data, the context, its result and the mutating
\* commands it sent to the access task, in order
Handled(d, ctx, res, cmds) == [dialog |-> d, ctx |-> ctx, res |-> res, sent |-> cmds]

\* Context::set_state
SetState(d, state, id, item, name) ==
    [d EXCEPT !.state = DialogState(state, id, item, name)]

\* a check of the permission that lets everyone through
RequireKbEditPermissionAlways(d) == Ok

\* Context::require_kb_edit_permission
RequireKbEditPermission(d) == IF d.edit_kb THEN Ok ELSE PermissionDenied

\* the guard of a confirmation that looks at the variant and not at the id
ConfirmsAnyId(d, state, id) == d.state.state = state

\* `DialogState::X(s) if s.id == *id`
Confirms(d, state, id) == d.state.state = state /\ d.state.id = id

\* self.require_kb_edit_permission()?; db.<command>(..).await?; self.set_state(after)
SendCommand(d, ctx, cmd, after) ==
    IF RequireKbEditPermission(d) # Ok
    THEN Handled(d, ctx, RequireKbEditPermission(d), <<>>)
    ELSE LET e == RunCommand(ctx, cmd) IN
         Handled(IF e.res.tag = "Ok" THEN [d EXCEPT !.state = after] ELSE d,
                 e.ctx, e.res, <<cmd>>)

\* a callback query: its variant and the ids it carries
Query(q, id, destination) == [q |-> q, id |-> id, destination |-> destination]

\* Context::handle_callback_query
CallbackQuery(d, ctx, query) ==
    LET st == d.state
        stay(res) == Handled(d, ctx, res, <<>>)
        go(state, id, item, name) == Handled(SetState(d, state, id, item, name), ctx, Ok, <<>>)
        dirParent(x) == CmdDirectoryParent(ctx, DialogUctx, x).res
        noteParent(x) == CmdNoteParent(ctx, DialogUctx, x).res
        toNoteParent(x) ==
            IF noteParent(x).tag # "Ok" THEN stay(noteParent(x))
            ELSE go("KbNavigation", noteParent(x).parent[1], NoFullId, "")
        up(state) ==
            IF dirParent(st.id).tag # "Ok" THEN stay(dirParent(st.id))
            ELSE IF dirParent(st.id).parent = None THEN stay(UserError("CannotGoUp"))
            ELSE go(state, dirParent(st.id).parent[1], st.item, "")
        ifHasParent(x, error, state) ==
            IF dirParent(x).tag # "Ok" THEN stay(dirParent(x))
            ELSE IF dirParent(x).parent = None THEN stay(error)
            ELSE go(state, x, NoFullId, "")
        archive == {c \in DbReadDirectory(ctx, DialogUctx, ROOT_DIR).children :
                        c.kind = "directory" /\ c.name = ARCHIVE_DIR}
    IN
    CASE query.q = "OpenMainMenu" -> go("MainMenu", NoFullId, NoFullId, "")
      [] query.q = "OpenKb" ->
             go("KbNavigation", FullId(ROOT_PROVIDER_ID, ROOT_DIR), NoFullId, "")
      [] query.q = "OpenNewsletterArchive" ->
             IF archive = {} THEN stay(Panic)
             ELSE LET c == CHOOSE x \in archive : TRUE IN
                  go("KbNavigation", FullId(c.provider, c.id), NoFullId, "")
      [] query.q = "OpenFeedback" -> go("FeedbackTopicSelection", NoFullId, NoFullId, "")
      [] query.q = "OpenFeedbackTopic" -> go("FormFilling", NoFullId, NoFullId, "")
      [] query.q \in {"OpenNlSettings", "ManageSubscriptions"} ->
             go("SubscriptionsMenu", NoFullId, NoFullId, "")
      [] query.q = "KbGoUp" ->
             IF st.state \in {"KbNavigation", "KbNoteMovement", "KbDirectoryMovement"}
             THEN up(st.state)
             ELSE stay(UserError("InvalidState"))
      [] query.q = "KbNavToDir" ->
             IF st.state \in {"KbNoteMovement", "KbDirectoryMovement"}
             THEN go(st.state, query.id, st.item, "")
             ELSE go("KbNavigation", query.id, NoFullId, "")
      [] query.q = "KbNavToNote" -> go("KbNoteViewing", query.id, NoFullId, "")
      [] query.q = "GoBack" ->
             CASE st.state \in {"KbNoteViewing", "KbNoteRenaming"} -> toNoteParent(st.id)
               [] st.state \in {"KbNoteCreation", "KbDirectoryEditing", "KbDirectoryCreation",
                                "KbDirectoryRenaming"} ->
                      go("KbNavigation", st.id, NoFullId, "")
               [] st.state = "KbNoteCreationNamed" -> go("KbNoteCreation", st.id, NoFullId, "")
               [] st.state = "KbNoteEditing" -> go("KbNoteViewing", st.id, NoFullId, "")
               [] st.state = "KbNoteMovement" -> go("KbNoteViewing", st.item, NoFullId, "")
               [] st.state = "KbDirectoryMovement" ->
                      go("KbNavigation", st.item, NoFullId, "")
               [] st.state = "FormFilling" -> stay(Ok)
               [] st.state = "SubscriptionsMenu" -> go("MainMenu", NoFullId, NoFullId, "")
               [] OTHER -> stay(UserError("InvalidState"))
      [] query.q = "KbEditNote" -> go("KbNoteEditing", query.id, NoFullId, "")
      [] query.q = "KbRenameNote" -> go("KbNoteRenaming", query.id, NoFullId, "")
      [] query.q = "KbMoveNote" ->
             IF noteParent(query.id).tag # "Ok" THEN stay(noteParent(query.id))
             ELSE go("KbNoteMovement", noteParent(query.id).parent[1], query.id, "")
      [] query.q = "KbDeleteNote" ->
             IF Confirms(d, "KbNoteViewing", query.id)
             THEN go("KbNoteDeletionConfirmation", query.id, NoFullId, "")
             ELSE stay(UserError("InvalidState"))
      [] query.q = "KbConfirmNoteDeletion" ->
             IF ~Confirms(d, "KbNoteDeletionConfirmation", query.id)
             THEN stay(UserError("InvalidState"))
             ELSE IF RequireKbEditPermission(d) # Ok THEN stay(RequireKbEditPermission(d))
             ELSE IF noteParent(query.id).tag # "Ok" THEN stay(noteParent(query.id))
             ELSE LET nav == SetState(d, "KbNavigation", noteParent(query.id).parent[1],
                                      NoFullId, "")
                      cmd == Command("delete_note", query.id, NoFullId, "", "")
                      e == RunCommand(ctx, cmd)
                  IN Handled(nav, e.ctx, e.res, <<cmd>>)
      [] query.q = "KbCancelNoteDeletion" ->
             IF Confirms(d, "KbNoteDeletionConfirmation", query.id)
             THEN go("KbNoteViewing", query.id, NoFullId, "")
             ELSE stay(UserError("InvalidState"))
      [] query.q = "KbEditDir" ->
             IF Confirms(d, "KbNavigation", query.id)
             THEN go("KbDirectoryEditing", query.id, NoFullId, "")
             ELSE stay(UserError("InvalidState"))
      [] query.q = "KbCreateNote" ->
             IF Confirms(d, "KbDirectoryEditing", query.destination)
             THEN go("KbNoteCreation", query.destination, NoFullId, "")
             ELSE stay(UserError("InvalidState"))
      [] query.q = "KbMoveNoteHere" ->
             IF st.state = "KbNoteMovement" /\ st.item = query.id /\ st.id = query.destination
             THEN SendCommand(d, ctx, Command("move_note", st.item, st.id, "", ""),
                              DialogState("KbNoteViewing", st.item, NoFullId, ""))
             ELSE stay(UserError("InvalidState"))
      [] query.q = "KbMoveDirectoryHere" ->
             IF st.state = "KbDirectoryMovement" /\ st.item = query.id
                    /\ st.id = query.destination
             THEN SendCommand(d, ctx, Command("move_directory", st.item, st.id, "", ""),
                              DialogState("KbNavigation", st.item, NoFullId, ""))
             ELSE stay(UserError("InvalidState"))
      [] query.q = "KbMoveDirectory" ->
             IF RequireKbEditPermission(d) # Ok THEN stay(RequireKbEditPermission(d))
             ELSE IF dirParent(query.id).tag # "Ok" THEN stay(dirParent(query.id))
             ELSE IF dirParent(query.id).parent = None THEN stay(CannotMoveRoot)
             ELSE go("KbDirectoryMovement", dirParent(query.id).parent[1], query.id, "")
      [] query.q = "KbCreateDirectory" ->
             go("KbDirectoryCreation", query.destination, NoFullId, "")
      [] query.q = "KbRenameDirectory" ->
             IF RequireKbEditPermission(d) # Ok THEN stay(RequireKbEditPermission(d))
             ELSE ifHasParent(query.id, CannotRenameRoot, "KbDirectoryRenaming")
      [] query.q = "KbDeleteDirectory" ->
             ifHasParent(query.id, CannotDeleteRoot, "KbDirectoryDeletion")
      [] query.q = "KbConfirmDirectoryDeletion" ->
             IF ~Confirms(d, "KbDirectoryDeletion", query.id)
             THEN stay(UserError("InvalidState"))
             ELSE IF RequireKbEditPermission(d) # Ok THEN stay(RequireKbEditPermission(d))
             ELSE IF dirParent(query.id).tag # "Ok" THEN stay(dirParent(query.id))
             ELSE IF dirParent(query.id).parent = None THEN stay(CannotDeleteRoot)
             ELSE SendCommand(d, ctx, Command("delete_directory", query.id, NoFullId, "", ""),
                              DialogState("KbNavigation", dirParent(query.id).parent[1],
                                          NoFullId, ""))
      [] query.q = "KbCancelDirectoryDeletion" ->
             IF Confirms(d, "KbDirectoryDeletion", query.id)
             THEN go("KbNavigation", query.id, NoFullId, "")
             ELSE stay(UserError("InvalidState"))
      [] query.q = "FormOption" ->
             IF st.state = "FormFilling" THEN stay(Ok) ELSE stay(UserError("InvalidState"))
      [] OTHER -> stay(Ok)

\* handle_message: the handler of the state the dialog is in; `text` is the text of the
\* message, "" standing for a message extract_name and extract_formatted_text refuse
Message(d, ctx, text) ==
    LET st == d.state
        stay(res) == Handled(d, ctx, res, <<>>)
        go(state, id, item, name) == Handled(SetState(d, state, id, item, name), ctx, Ok, <<>>)
        refused == stay(UserError("MessageFormatError"))
    IN
    CASE st.state \in {"Initial", "FormFilling"} -> go("MainMenu", NoFullId, NoFullId, "")
      [] st.state = "MainMenu" -> stay(Ok)
      [] st.state = "KbNoteRenaming" ->
             IF text = "" THEN refused
             ELSE SendCommand(d, ctx, Command("rename_note", st.id, NoFullId, text, ""),
                              DialogState("KbNoteViewing", st.id, NoFullId, ""))
      [] st.state = "KbNoteCreation" ->
             IF text = "" THEN refused ELSE go("KbNoteCreationNamed", st.id, NoFullId, text)
      [] st.state = "KbNoteCreationNamed" ->
             IF text = "" THEN refused
             ELSE SendCommand(d, ctx, Command("create_note", NoFullId, st.id, st.name, text),
                              DialogState("KbNavigation", st.id, NoFullId, ""))
      [] st.state = "KbNoteEditing" ->
             IF text = "" THEN refused
             ELSE LET h == SendCommand(d, ctx,
                                       Command("update_note", st.id, NoFullId, "", text),
                                       d.state)
                      parent == CmdNoteParent(h.ctx, DialogUctx, st.id).res
                  IN
                  IF h.res # Ok THEN h
                  ELSE IF parent.tag # "Ok" THEN [h EXCEPT !.res = parent]
                  ELSE [h EXCEPT !.dialog = SetState(d, "KbNavigation", parent.parent[1],
                                                     NoFullId, "")]
      [] st.state = "KbDirectoryCreation" ->
             IF text = "" THEN refused
             ELSE SendCommand(d, ctx, Command("create_directory", NoFullId, st.id, text, ""),
                              DialogState("KbNavigation", st.id, NoFullId, ""))
      [] st.state = "KbDirectoryRenaming" ->
             IF text = "" THEN refused
             ELSE SendCommand(d, ctx, Command("rename_directory", st.id, NoFullId, text, ""),
                              DialogState("KbNavigation", st.id, NoFullId, ""))
      [] OTHER -> stay(UserError("UnexpectedMessage"))

\* the ids callback queries carry: the root and the first directory made, two notes
QueryDirs == {InDb(ROOT_DIR), InDb(NextRowId(InitContext.kb_dirs))}
QueryNotes == {InDb(NextRowId({})), InDb(NextRowId({}) + 1)}

Queries ==
    {Query(q, NoFullId, NoFullId) :
         q \in {"OpenMainMenu", "OpenKb", "OpenNewsletterArchive", "OpenFeedback",
                "OpenFeedbackTopic", "OpenNlSettings", "KbGoUp", "GoBack", "FormOption",
                "Subscribe"}}
    \cup {Query(q, x, x) :
              q \in {"KbNavToDir", "KbEditDir", "KbCreateNote", "KbMoveDirectory",
                     "KbCreateDirectory", "KbRenameDirectory", "KbDeleteDirectory",
                     "KbConfirmDirectoryDeletion", "KbCancelDirectoryDeletion"},
              x \in QueryDirs}
    \cup {Query(q, x, NoFullId) :
              q \in {"KbNavToNote", "KbEditNote", "KbRenameNote", "KbMoveNote",
                     "KbDeleteNote", "KbConfirmNoteDeletion", "KbCancelNoteDeletion"},
              x \in QueryNotes}
    \cup {Query("KbMoveNoteHere", x, t) : x \in QueryNotes, t \in QueryDirs}
    \cup {Query("KbMoveDirectoryHere", x, t) : x \in QueryDirs, t \in QueryDirs}

\* DialogStorage::get_dialog for a user not seen before: the dialog starts in Initial
\* with the permissions the permissions table holds for the user
GetDialog(edit_kb) ==
    /\ dialog.state.state = "Initial"
    /\ dialog' = [dialog EXCEPT !.edit_kb = edit_kb]
    /\ last' = NoLast
    /\ UNCHANGED <<context, callVars>>

\* an update handled to its end
DialogHandle(op, h) ==
    /\ WithinBounds(h)
    /\ Cardinality(h.ctx.kb_dirs) + Cardinality(h.ctx.kb_notes)
           <= Cardinality(InitContext.kb_dirs) + Cardinality(QueryNotes)
    /\ dialog' = h.dialog
    /\ context' = h.ctx
    /\ last' = [op |-> op, res |-> h.res, calls |-> h.sent]
    /\ UNCHANGED callVars

\* handle_callback_query: a dialog in Initial is told the action is invalid
HandleCallbackQuery(query) ==
    DialogHandle(query.q, IF dialog.state.state = "Initial"
                          THEN Handled(dialog, context, UserError("InvalidAction"), <<>>)
                          ELSE CallbackQuery(dialog, context, query))

HandleMessage(text) == DialogHandle("message", Message(dialog, context, text))

NextDialog ==
    \/ \E edit_kb \in BOOLEAN : GetDialog(edit_kb)
    \/ \E query \in Queries : HandleCallbackQuery(query)
    \/ \E text \in Names \cup {""} : HandleMessage(text)

SpecDialog == Init /\ [][NextDialog]_vars

-----------------------------------------------------------------------------
(* Permissions and confirmations in the dialog layer *)

MutatingOps ==
    {"create_directory", "create_note", "rename_directory", "rename_note",
     "move_directory", "move_note", "delete_directory", "delete_note", "update_note"}

\* C37: whatever messages and callback queries a user without edit_kb issues, in
\* whatever dialog state, the handler sends no mutating command to the access task
\* and the knowledge base stays as it was
C37_NoCommandWithoutEditKb ==
    [][~dialog.edit_kb =>
           /\ \A i \in DOMAIN last'.calls : last'.calls[i].op \notin MutatingOps
           /\ context' = context]_vars

\* a user without edit_kb has named a new note and sent its text, and was refused
C37_Witness ==
    /\ ~dialog.edit_kb
    /\ dialog.state.state = "KbNoteCreationNamed"
    /\ last.op = "message"
    /\ last.res = PermissionDenied

\* the commands of an operation a handler sent
SentOf(calls, op) == {calls[i] : i \in {j \in DOMAIN calls : calls[j].op = op}}

\* the confirm-deletion queries, and the state each of them needs
ConfirmQueries ==
    {Query("KbConfirmNoteDeletion", x, NoFullId) : x \in QueryNotes}
        \cup {Query("KbConfirmDirectoryDeletion", x, x) : x \in QueryDirs}

\* the dialog is in the variant `state` carrying `id`
Awaits(state, id) == dialog.state.state = state /\ dialog.state.id = id
ConfirmationState(q) ==
    IF q = "KbConfirmNoteDeletion" THEN "KbNoteDeletionConfirmation" ELSE "KbDirectoryDeletion"

\* C38: delete_note(id) and delete_directory(id) are sent only by a handler entered
\* in the confirmation state carrying that id, and a confirm-deletion query met in any
\* other state of Context::handle_callback_query is refused as InvalidState, sends
\* nothing and leaves the dialog and the knowledge base as they were
C38_DeleteOnlyConfirmed ==
    [][/\ \A cmd \in SentOf(last'.calls, "delete_note") :
              Awaits("KbNoteDeletionConfirmation", cmd.item)
       /\ \A cmd \in SentOf(last'.calls, "delete_directory") :
              Awaits("KbDirectoryDeletion", cmd.item)
       /\ \A query \in ConfirmQueries :
              /\ last'.op = query.q
              /\ ~Awaits(ConfirmationState(query.q), query.id)
              /\ HandleCallbackQuery(query)
              => /\ last'.calls = <<>>
                 /\ dialog' = dialog
                 /\ context' = context
                 /\ dialog.state.state # "Initial" => last'.res = UserError("InvalidState")
      ]_vars

\* a directory was deleted by the confirmation of its deletion
C38_Witness ==
    /\ last.op = "KbConfirmDirectoryDeletion"
    /\ last.res = Ok
    /\ SentOf(last.calls, "delete_directory") # {}
    /\ context.kb_dirs = InitContext.kb_dirs

\* a note was deleted by the confirmation of its deletion
C38_WitnessNote ==
    /\ last.op = "KbConfirmNoteDeletion"
    /\ last.res = Ok
    /\ SentOf(last.calls, "delete_note") # {}
    /\ dialog.state.state = "KbNavigation"

\* a confirmation for another id than the one awaiting confirmation was refused
C38_WitnessRefused ==
    /\ last.op = "KbConfirmDirectoryDeletion"
    /\ last.res = UserError("InvalidState")
    /\ dialog.state.state = "KbDirectoryDeletion"

-----------------------------------------------------------------------------
(* What a caller the feed's predicate turns away learns of its entries *)

\* C39: for a caller whose permissions do not satisfy a feed's predicate,
\* get_note_name and get_note_parent on an entry of the feed fail with
\* PermissionDenied as read_note does, so that the answers such a caller gets do not
\* depend on what the feed holds
C39_AsStated ==
    \A e \in context.kb_newsletters, permissions \in Permissions :
        ~Allowed(e.name, permissions)
            => /\ ArchiveReadNote(context, permissions, e.id) = PermissionDenied
               /\ ArchiveGetNoteName(context, e.id) = PermissionDenied
               /\ ArchiveGetNoteParent(context, e.id) = PermissionDenied

-----------------------------------------------------------------------------
(* The message queue (message_queue.rs): callers hand packages to one worker over a
   channel of capacity one and wait for the result on a oneshot channel of their own.
   `queue` is the channel, `oneshot` the result channels, `accepted` the packages the
   channel took, `executed` those the Bot API took *)

\* what result_rx.await yields once result_tx is dropped without a value
RecvError == Result("RecvError", None, None)

\* what the Bot API answers a send with
BotAnswers == {"Ok", "Internal", "RetryAfter"}

\* MessageQueueSender::send_message up to its second await: the package is made and
\* the channel takes it once it has room
SendMessage(c, t) ==
    LET pkg == CommandPackage(c, Command("send_message", NoFullId, NoFullId, "", t)) IN
    /\ pc[c] = "idle"
    /\ Len(accepted) < MaxSends
    /\ Len(queue) < ChannelCapacity
    /\ queue' = Append(queue, pkg)
    /\ accepted' = Append(accepted, pkg)
    /\ oneshot' = [oneshot EXCEPT ![c] = <<>>]
    /\ sent' = [sent EXCEPT ![c] = Append(@, t)]
    /\ pc' = [pc EXCEPT ![c] = "awaiting"]
    /\ UNCHANGED <<dialog, context, last, pending, waiters, actor, task, executed, got>>

\* result_rx.await.unwrap(): the result, or a panic when the sender half is gone
ResultRecv(c) ==
    /\ pc[c] = "awaiting"
    /\ oneshot[c] # <<>>
    /\ IF Head(oneshot[c]) = RecvError
       THEN pc' = [pc EXCEPT ![c] = "panicked"] /\ got' = got
       ELSE /\ pc' = [pc EXCEPT ![c] = "idle"]
            /\ got' = [got EXCEPT ![c] = Append(@, Head(oneshot[c]))]
    /\ oneshot' = [oneshot EXCEPT ![c] = Tail(@)]
    /\ UNCHANGED <<dialog, context, last, pending, waiters, queue, actor, task, accepted,
                   executed, sent>>

\* MessageQueue::run, one turn of its loop: a package is received and sent to the Bot
\* API; on retry-after the worker sleeps and the package is dropped with its result_tx
\* at the end of the turn, otherwise the answer goes to the caller
Run(answer) ==
    /\ queue # <<>>
    /\ queue' = Tail(queue)
    /\ oneshot' = [oneshot EXCEPT ![Head(queue).caller] =
                       <<CASE answer = "RetryAfter" -> RecvError
                           [] answer = "Ok" -> Ok
                           [] OTHER -> Result(answer, None, None)>>]
    /\ executed' = IF answer = "Ok" THEN Append(executed, Head(queue)) ELSE executed
    /\ UNCHANGED <<dialog, context, last, pc, pending, waiters, actor, task, accepted,
                   sent, got>>

NextQueue ==
    \/ \E c \in Callers, t \in Texts : SendMessage(c, t)
    \/ \E c \in Callers : ResultRecv(c)
    \/ \E answer \in BotAnswers : Run(answer)

\* the worker and the callers are tasks the runtime keeps polling
SpecQueueFair ==
    /\ Init /\ [][NextQueue]_vars
    /\ WF_vars(\E answer \in BotAnswers : Run(answer))
    /\ \A c \in Callers : WF_vars(ResultRecv(c))

\* C40: every message handed to send_message gets a result from the worker in the
\* end, whatever the Bot API answers: the caller that waits comes back with it
C40_AsStated ==
    \A c \in Callers :
        (pc[c] = "awaiting") ~> (pc[c] = "idle" /\ Len(got[c]) = Len(sent[c]))

====
